---- MODULE Spec2Model ----
(***************************************************************************)
(* DocsRAG: hybrid retrieval and incremental indexing engine.              *)
(*                                                                         *)
(* The module holds several specifications over one set of variables:      *)
(*   SpecMerge   the merge/dedup step of RAGPipeline.ask                   *)
(*   SpecQuery   RAGPipeline.ask and the conversation history              *)
(*   SpecDetect  CacheManager / DocumentRAGSystem change detection, loads  *)
(*   SpecIngest  DocumentRAGSystem.initialize over the persisted cache     *)
(*   SpecCache   pipeline/rag.py RAGPipeline construction and its cache    *)
(*   SpecIndex   VectorDB.add                                              *)
(*   SpecLexical BM25Index construction and search                         *)
(*   SpecRerank  rerank_candidates                                         *)
(*   SpecSession DocumentRAGSystem.initialize followed by query            *)
(* A specification leaves the variables of the other parts at their idle   *)
(* values.                                                                 *)
(***************************************************************************)
EXTENDS Integers, Sequences, FiniteSets, TLC

VARIABLES
    \* ---- merge step (locals of RAGPipeline.ask) ----
    variant,            \* which RAGPipeline source file runs: "pipeline" | "modules"
    bm25Candidates,     \* list built from bm25Index.search results
    vectorCandidates,   \* list returned by db.search, tagged source = "vector"
    mergedCandidates,   \* merge result
    mergePc,            \* "input" before the merge ran, "merged" after
    \* ---- one RAGPipeline being queried ----
    pipe,                   \* self.chunks, self.embeddings of the pipeline
    conversationHistory,    \* self.conversationHistory
    lastAsk,                \* how the last call of ask ended, and the provider calls it made
    askLog,                 \* history variable: the turns of all answered queries, in order
    \* ---- data directory and cache directory ----
    corpus,         \* the *.pdf files of dataDir: path -> [content, mtime]
    metaFile,       \* cacheDir/file_metadata.json
    embFile,        \* cacheDir/embeddings.json
    fileChanges,    \* what the last get_file_changes returned
    loadResult,     \* how the last CacheManager load call ended
    detectPc,       \* "input" before a CacheManager call, "done" after it
    \* ---- cache of pipeline/rag.py ----
    cachedChunks,       \* the file named by cachedChunks (cached_chunks.json)
    cachedEmbeddings,   \* the file named by cachedEmbeddings (cached_embeddings.npy)
    buildResult,        \* how the last RAGPipeline construction or from_cache ended
    \* ---- DocumentRAGSystem ----
    initResult,         \* how the last initialize() ended and the embedding calls it made
    ragPipeline,        \* self.ragPipeline: "None" or "RAGPipeline" (the pipeline is pipe)
    lastQuery,          \* the query argument of the last query / ask call that records it
    \* ---- VectorDB ----
    db,                 \* the index, self.texts and self.metadata of a VectorDB
    addResult,          \* how the last VectorDB.add ended
    \* ---- BM25Index ----
    lexTexts,           \* the texts a BM25Index is built over
    lexQuery,           \* the query string of the search
    lexTopK,            \* config.retrieval.bm25TopK
    lexIndex,           \* the BM25Index: self.texts, self.tokenizedTexts
    lexResults,         \* what search returned
    lexPc,              \* "input", "built", "failed", "done"
    \* ---- reranker ----
    rerankCandidates,   \* the candidates argument of rerank_candidates
    rerankTopK,         \* config.reranker.topK / top_k
    rerankResult,       \* the scores the model gave, the calls made, the returned list
    rerankPc,           \* "input" before the call, "done" after
    contextTopK,        \* config.retrieval.contextTopK
    lastMessages,       \* the messages the last ask handed to the chat client
    \* ---- calls followed statement by statement ----
    objects,            \* every RAGPipeline object allocated so far, by identity 1, 2, ...
    generation,         \* the identity self.ragPipeline refers to, 0 for None
    ingestRun,          \* the initialize() in progress: its position and its locals
    queryRun,           \* the query() in progress: its position, its object, what it read
    searchCall,         \* the last VectorDB.search: k and how it ended
    chunkRun            \* a create_overlap_chunks call: its arguments, locals and position

mergeVars == <<variant, bm25Candidates, vectorCandidates, mergedCandidates, mergePc>>
queryVars == <<pipe, conversationHistory, lastAsk, askLog>>
diskVars == <<corpus, metaFile, embFile>>
detectVars == <<fileChanges, loadResult, detectPc>>
cacheVars == <<cachedChunks, cachedEmbeddings, buildResult>>

systemVars == <<initResult, ragPipeline, lastQuery>>
indexVars == <<db, addResult>>
lexVars == <<lexTexts, lexQuery, lexTopK, lexIndex, lexResults, lexPc>>
rerankVars == <<rerankCandidates, rerankTopK, rerankResult, rerankPc, contextTopK, lastMessages>>
stepVars == <<objects, generation, ingestRun, queryRun, searchCall, chunkRun>>
toolVars == <<lexVars, rerankVars, stepVars>>

vars == <<mergeVars, queryVars, diskVars, detectVars, cacheVars, systemVars,
          indexVars, toolVars>>

(***************************************************************************)
(* Text.  A text is a sequence of one-character strings, so that           *)
(* str.strip() and str.lower() are computed and not assumed.               *)
(***************************************************************************)
Lower(c) ==
    CASE c = "A" -> "a"
      [] c = "B" -> "b"
      [] c = "C" -> "c"
      [] OTHER -> c

IsSpace(c) == c = " "

RECURSIVE LStrip(_)
LStrip(s) == IF s # <<>> /\ IsSpace(Head(s)) THEN LStrip(Tail(s)) ELSE s

RECURSIVE RStrip(_)
RStrip(s) ==
    IF s # <<>> /\ IsSpace(s[Len(s)]) THEN RStrip(SubSeq(s, 1, Len(s) - 1)) ELSE s

Strip(s) == RStrip(LStrip(s))

LowerStr(s) == [i \in 1..Len(s) |-> Lower(s[i])]

\* textKey = candidate["text"].strip().lower()
textKey(text) == LowerStr(Strip(text))

(***************************************************************************)
(* Sample corpus rows used as search results: texts that differ only in    *)
(* case and surrounding blanks share a deduplication key.                  *)
(***************************************************************************)
Absent == <<>>                  \* a dict key that is not present
Present(v) == <<v>>             \* a dict key holding v

SampleTexts ==
    << <<"a", "b">>,            \* row 1
       <<" ", "A", "B", " ">>,  \* row 2: same key as row 1
       <<"c">>,                 \* row 3
       <<"C", " ">>,            \* row 4: same key as row 3
       <<"b">> >>               \* row 5

NumRows == Len(SampleTexts)
Rows == 1..NumRows

SampleMetadata(row) == [page |-> row, filename |-> "doc", category |-> "misc_docs"]

Bm25Score(row) == 10 - row        \* score reported by BM25 for a row
Distance(row, pos) == 20 + 10 * row + pos   \* distance reported by the vector search

MaxLex == 2     \* longest lexical result list
MaxVec == 2     \* longest vector result list

\* bm25Candidates.append({...}) for one (idx, score, text) triple
Bm25Candidate(row) ==
    [text |-> SampleTexts[row], metadata |-> SampleMetadata(row),
     bm25_score |-> Present(Bm25Score(row)), distance |-> Absent,
     vector_distance |-> Absent, source |-> "bm25"]

\* one db.search result after candidate["source"] = "vector"
VectorCandidate(row, pos) ==
    [text |-> SampleTexts[row], metadata |-> SampleMetadata(row),
     bm25_score |-> Absent, distance |-> Present(Distance(row, pos)),
     vector_distance |-> Absent, source |-> "vector"]

SeqsUpTo(S, n) == UNION {[1..k -> S] : k \in 0..n}

IsInjective(s) == \A i, j \in DOMAIN s : s[i] = s[j] => i = j

\* BM25 visits every document once, so a lexical result list names distinct rows;
\* the vector search may return the same row more than once.
LexRowLists == {s \in SeqsUpTo(Rows, MaxLex) : IsInjective(s)}
VecRowLists == SeqsUpTo(Rows, MaxVec)

(***************************************************************************)
(* Merge (deduplicate by text).                                            *)
(* Merge state: mergedCandidates, seenTexts, and textToCandidate, which    *)
(* maps a key to the position in mergedCandidates of the dict it aliases.  *)
(***************************************************************************)
EmptyMerge == [mergedCandidates |-> <<>>, seenTexts |-> {}, textToCandidate |-> <<>>]

\* "Add BM25 results first" loop body
AddBm25(st, candidate) ==
    LET k == textKey(candidate.text) IN
    IF k \notin st.seenTexts
    THEN [mergedCandidates |-> Append(st.mergedCandidates, candidate),
          seenTexts |-> st.seenTexts \cup {k},
          textToCandidate |-> Append(st.textToCandidate,
                                     [key |-> k, pos |-> Len(st.mergedCandidates) + 1])]
    ELSE st

\* textKey in textToCandidate
InTextToCandidate(st, k) == \E i \in DOMAIN st.textToCandidate : st.textToCandidate[i].key = k

\* position of textToCandidate[textKey] in mergedCandidates
TextToCandidatePos(st, k) ==
    LET i == CHOOSE j \in DOMAIN st.textToCandidate : st.textToCandidate[j].key = k
    IN st.textToCandidate[i].pos

\* mutant: the distance of the vector candidate is dropped
MarkHybrid_NoDistance(existing, candidate) == [existing EXCEPT !.source = "hybrid"]

\* existing["source"] = "hybrid"; existing["vector_distance"] = candidate["distance"]
MarkHybrid(existing, candidate) ==
    IF candidate.distance # Absent
    THEN [existing EXCEPT !.source = "hybrid", !.vector_distance = candidate.distance]
    ELSE [existing EXCEPT !.source = "hybrid"]

\* mutant: the seenTexts test on the vector results is lost
AddVectorPipeline_NoSeenCheck(st, candidate) ==
    [st EXCEPT !.mergedCandidates = Append(@, candidate),
               !.seenTexts = @ \cup {textKey(candidate.text)}]

\* "Add vector results (skip duplicates)" loop body, pipeline/rag.py
AddVectorPipeline(st, candidate) ==
    LET k == textKey(candidate.text) IN
    IF k \notin st.seenTexts
    THEN [st EXCEPT !.mergedCandidates = Append(@, candidate),
                    !.seenTexts = @ \cup {k}]
    ELSE IF InTextToCandidate(st, k)
         THEN [st EXCEPT !.mergedCandidates[TextToCandidatePos(st, k)] =
                              MarkHybrid(@, candidate)]
         ELSE st

\* "Add vector results (skip duplicates)" loop body, modules/rag.py:
\* the first entry of mergedCandidates with the key is marked, whatever its source
AddVectorModules(st, candidate) ==
    LET k == textKey(candidate.text) IN
    IF k \notin st.seenTexts
    THEN [st EXCEPT !.mergedCandidates = Append(@, candidate),
                    !.seenTexts = @ \cup {k}]
    ELSE LET hits == {i \in DOMAIN st.mergedCandidates :
                         textKey(st.mergedCandidates[i].text) = k}
         IN IF hits = {}
            THEN st
            ELSE LET first == CHOOSE i \in hits : \A j \in hits : i <= j
                 IN [st EXCEPT !.mergedCandidates[first] = MarkHybrid(@, candidate)]

AddVector(v, st, candidate) ==
    IF v = "pipeline" THEN AddVectorPipeline(st, candidate)
                      ELSE AddVectorModules(st, candidate)

RECURSIVE MergeBm25From(_, _, _)
MergeBm25From(st, cands, i) ==
    IF i > Len(cands) THEN st ELSE MergeBm25From(AddBm25(st, cands[i]), cands, i + 1)

RECURSIVE MergeVectorFrom(_, _, _, _)
MergeVectorFrom(v, st, cands, i) ==
    IF i > Len(cands) THEN st
    ELSE MergeVectorFrom(v, AddVector(v, st, cands[i]), cands, i + 1)

\* step 3 of ask: the merged candidate list
MergeCandidates(v, bm25, vector) ==
    MergeVectorFrom(v, MergeBm25From(EmptyMerge, bm25, 1), vector, 1).mergedCandidates

(***************************************************************************)
(* RAGPipeline.ask and the conversation history.                           *)
(***************************************************************************)
maxHistory == 10

MaxAsks == 12       \* answered queries per behaviour

Queries == {"q1", "q2"}
Responses == {"r"}                          \* text returned by the chat client
Faults == {"none", "embed", "rerank", "llm"}    \* the provider that fails in this query

Chunk(row) == [text |-> SampleTexts[row], metadata |-> SampleMetadata(row)]
Dim == 2                                    \* VectorDB(dim): the dimension of the index
\* the vector the embedder returns for a text: Dim numbers that depend on the text
Embedding(text) == [of |-> text, dim |-> Dim]

\* the pipeline RAGPipeline(chunks, ...) holds after construction
PipeOf(rows) ==
    [chunks |-> [i \in DOMAIN rows |-> Chunk(rows[i])],
     embeddings |-> [i \in DOMAIN rows |-> Embedding(SampleTexts[rows[i]])]]

QueryRows == <<1, 2>>       \* rows of the non-empty pipeline that is queried

Turn(query, response) ==
    [user |-> [role |-> "user", content |-> query],
     assistant |-> [role |-> "assistant", content |-> response]]

\* mutant: the newest turn is dropped when the bound is exceeded
add_to_conversation_history_PopLast(history, query, response) ==
    LET appended == Append(history, Turn(query, response)) IN
    IF Len(appended) > maxHistory THEN SubSeq(appended, 1, Len(appended) - 1) ELSE appended

\* RAGPipeline.add_to_conversation_history
add_to_conversation_history(history, query, response) ==
    LET appended == Append(history, Turn(query, response)) IN
    IF Len(appended) > maxHistory THEN Tail(appended) ELSE appended

NoCalls == [embed |-> 0, rerank |-> 0, llm |-> 0]

ErrNoDocuments == <<"ValueError", "Cannot query: No documents loaded.">>
ErrProvider(provider) == <<"ProviderError", provider>>
\* modules/rag.py calls search(query, k=...) on a search(self, query, config)
ErrSearchKeyword == <<"TypeError", "search() got an unexpected keyword argument 'k'">>
ErrIndex == <<"IndexError", "list index out of range">>

Raise(error, calls, history) ==
    [kind |-> "raise", error |-> error, calls |-> calls, history |-> history,
     answer |-> Absent]

\* the result lists the two searches of a query over the pipeline can return
Min(a, b) == IF a <= b THEN a ELSE b

\* bm25Index.search gives one entry for each of up to MaxLex documents,
\* db.search gives MaxVec entries
AskLexLists(p) ==
    {s \in LexRowLists : /\ Len(s) = Min(MaxLex, Len(p.chunks))
                          /\ \A i \in DOMAIN s : s[i] \in DOMAIN p.chunks}
AskVecLists(p) ==
    {s \in VecRowLists : /\ Len(s) = MaxVec
                          /\ \A i \in DOMAIN s : s[i] \in DOMAIN p.chunks}

\* mutant: the turn is recorded before the chat client is called
ask_AppendBeforeChat(v, p, history, query, fault, response, lexRows, vecRows) ==
    IF p.chunks = <<>> \/ Len(p.embeddings) = 0
    THEN Raise(ErrNoDocuments, NoCalls, history)
    ELSE IF fault = "none"
         THEN [kind |-> "answer", error |-> Absent,
               calls |-> [embed |-> 1, rerank |-> 1, llm |-> 1],
               history |-> add_to_conversation_history(history, query, response),
               answer |-> Present(response)]
         ELSE Raise(ErrProvider(fault), [NoCalls EXCEPT ![fault] = 1],
                    add_to_conversation_history(history, query, response))

\* mutant: the query is embedded before the documents are checked
ask_EmbedBeforeCheck(v, p, history, query, fault, response, lexRows, vecRows) ==
    IF p.chunks = <<>> \/ Len(p.embeddings) = 0
    THEN Raise(ErrNoDocuments, [NoCalls EXCEPT !.embed = 1], history)
    ELSE [kind |-> "answer", error |-> Absent,
          calls |-> [embed |-> 1, rerank |-> 1, llm |-> 1],
          history |-> add_to_conversation_history(history, query, response),
          answer |-> Present(response)]

\* RAGPipeline.ask: the outcome, the provider calls made and the history left
ask(v, p, history, query, fault, response, lexRows, vecRows) ==
    IF p.chunks = <<>> \/ Len(p.embeddings) = 0
    THEN Raise(ErrNoDocuments, NoCalls, history)
    ELSE IF fault = "embed"
    THEN Raise(ErrProvider("embed"), [NoCalls EXCEPT !.embed = 1], history)
    ELSE IF v = "modules"       \* self.bm25Index.search(query, k=BM25_K)
    THEN Raise(ErrSearchKeyword, [NoCalls EXCEPT !.embed = 1], history)
    ELSE
      LET bm25 == [i \in DOMAIN lexRows |->
                      [Bm25Candidate(lexRows[i]) EXCEPT
                          !.metadata = p.chunks[lexRows[i]].metadata]]
          vector == [i \in DOMAIN vecRows |-> VectorCandidate(vecRows[i], i)]
          merged == MergeCandidates(v, bm25, vector)
          \* rerank_candidates returns [] for no candidates, without scoring
          rerankCalls == IF merged = <<>> THEN 0 ELSE 1
          calls == [embed |-> 1, rerank |-> rerankCalls, llm |-> 0]
      IN IF fault = "rerank" /\ rerankCalls = 1
         THEN Raise(ErrProvider("rerank"), calls, history)
         ELSE IF fault = "llm"
         THEN Raise(ErrProvider("llm"), [calls EXCEPT !.llm = 1], history)
         ELSE [kind |-> "answer", error |-> Absent,
               calls |-> [calls EXCEPT !.llm = 1],
               history |-> add_to_conversation_history(history, query, response),
               answer |-> Present(response)]

QueryIdle ==
    /\ pipe = PipeOf(<<>>)
    /\ conversationHistory = <<>>
    /\ lastAsk = [kind |-> "none", error |-> Absent, calls |-> NoCalls,
                  fault |-> "none"]
    /\ askLog = <<>>

(***************************************************************************)
(* Files of the data directory and the two cache artifacts.                *)
(***************************************************************************)
Contents == {<<"x">>, <<"y", "y">>}     \* byte contents a PDF file can have
MaxMtime == 2                           \* modified times are 1..MaxMtime
Mtimes == 1..MaxMtime
Files == [content : Contents, mtime : Mtimes]

\* a zero-size PDF file: load_pdf returns no chunk for it
EmptyPdf == [content |-> <<>>, mtime |-> 1]

\* the maps from some of the paths D to R
PartialMaps(D, R) == UNION {[S -> R] : S \in SUBSET D}

\* get_file_hash: the MD5 digest of the file bytes
get_file_hash(content) == <<"md5", content>>

\* the record data_pipeline / get_file_metadata_for_path builds for a file
FileRecord(file) ==
    [fileSize |-> Len(file.content),
     fileModifiedTime |-> file.mtime,
     fileHash |-> get_file_hash(file.content)]

\* A cache artifact is absent, zero-length, not parseable, or holds data.
AbsentFile == [st |-> "absent", data |-> <<>>]
EmptyFile == [st |-> "empty", data |-> <<>>]
CorruptFile == [st |-> "corrupt", data |-> <<>>]
OkFile(data) == [st |-> "ok", data |-> data]

Exists(file) == file.st # "absent"          \* os.path.exists
GetSize(file) == IF file.st = "empty" THEN 0 ELSE 1     \* os.path.getsize, 0 or more

NoChanges == [changedFiles |-> {}, newFiles |-> {}, removedFiles |-> {}]

\* mutant: a file counts as changed as soon as its modified time differs
CacheManager_get_file_changes_MtimeOnly(meta, emb, current) ==
    IF ~Exists(meta) \/ ~Exists(emb) \/ GetSize(meta) = 0 \/ GetSize(emb) = 0
          \/ meta.st = "corrupt"
    THEN NoChanges
    ELSE [changedFiles |-> {f \in DOMAIN current \cap DOMAIN meta.data :
                              meta.data[f].fileModifiedTime # current[f].mtime},
          newFiles |-> DOMAIN current \ DOMAIN meta.data,
          removedFiles |-> DOMAIN meta.data \ DOMAIN current]

\* CacheManager.get_file_changes
CacheManager_get_file_changes(meta, emb, current) ==
    IF ~Exists(meta) \/ ~Exists(emb)
    THEN NoChanges
    ELSE IF GetSize(meta) = 0 \/ GetSize(emb) = 0
    THEN NoChanges
    ELSE IF meta.st = "corrupt"         \* json.load raises, caught by the except
    THEN NoChanges
    ELSE LET cacheMetadata == meta.data
             currentFiles == DOMAIN current
             cachedFiles == DOMAIN cacheMetadata
         IN [changedFiles |->
                {f \in currentFiles \cap cachedFiles :
                    /\ cacheMetadata[f].fileModifiedTime # current[f].mtime
                    /\ get_file_hash(current[f].content) # cacheMetadata[f].fileHash},
             newFiles |-> currentFiles \ cachedFiles,
             removedFiles |-> cachedFiles \ currentFiles]

Invalid ==
    [is_valid |-> FALSE, changed_files |-> {}, new_files |-> {}, removed_files |-> {}]

\* mutant: the hash is compared with the recorded size
System_get_file_changes_WrongField(meta, emb, current) ==
    IF ~Exists(meta) \/ ~Exists(emb) \/ GetSize(meta) = 0 \/ GetSize(emb) = 0
          \/ meta.st = "corrupt"
    THEN Invalid
    ELSE [is_valid |-> TRUE,
          changed_files |-> DOMAIN current \cap DOMAIN meta.data,
          new_files |-> DOMAIN current \ DOMAIN meta.data,
          removed_files |-> DOMAIN meta.data \ DOMAIN current]

\* DocumentRAGSystem.get_file_changes
System_get_file_changes(meta, emb, current) ==
    IF ~Exists(meta) \/ ~Exists(emb)
    THEN Invalid
    ELSE IF GetSize(meta) = 0 \/ GetSize(emb) = 0
    THEN Invalid
    ELSE IF meta.st = "corrupt"         \* json.load raises, caught by the except
    THEN Invalid
    ELSE LET cacheMetadata == meta.data
             current_files == DOMAIN current
             cached_files == DOMAIN cacheMetadata
         IN [is_valid |-> TRUE,
             changed_files |->
                {f \in current_files \cap cached_files :
                    get_file_hash(current[f].content) # cacheMetadata[f].fileHash},
             new_files |-> current_files \ cached_files,
             removed_files |-> cached_files \ current_files]

Returned(value) == [raised |-> Absent, value |-> value]
Raised(exception) == [raised |-> Present(exception), value |-> <<>>]

\* CacheManager.load_embeddings_cache
load_embeddings_cache(emb) ==
    IF emb.st = "absent" THEN Raised("FileNotFoundError")
    ELSE IF emb.st \in {"empty", "corrupt"} THEN Raised("JSONDecodeError")
    ELSE Returned(emb.data)

\* CacheManager.load_file_metadata
load_file_metadata(meta) ==
    IF meta.st = "absent" THEN Returned(<<>>)      \* except FileNotFoundError: {}
    ELSE IF meta.st \in {"empty", "corrupt"} THEN Raised("JSONDecodeError")
    ELSE Returned(meta.data)

\* CacheManager.update_file_metadata: the stored map with a fresh record for
\* every changed and every new file; the other records stay as they are
CacheManager_update_file_metadata(meta, current, fileChangesArg) ==
    LET loaded == load_file_metadata(meta)
        updated == fileChangesArg.changedFiles \cup fileChangesArg.newFiles
    IN IF loaded.raised # Absent
       THEN [raised |-> loaded.raised, meta |-> meta]
       ELSE LET fileMetadata == loaded.value
            IN [raised |-> Absent,
                meta |-> OkFile([f \in DOMAIN fileMetadata \cup updated |->
                                    IF f \in updated THEN FileRecord(current[f])
                                    ELSE fileMetadata[f]])]

NoFileChanges ==
    [by |-> "none", is_valid |-> Absent,
     changed |-> {}, added |-> {}, removed |-> {}]

DiskIdle ==
    /\ corpus = <<>>
    /\ metaFile = AbsentFile
    /\ embFile = AbsentFile

DetectIdle ==
    /\ fileChanges = NoFileChanges
    /\ loadResult = [op |-> "none", raised |-> Absent, value |-> <<>>]
    /\ detectPc = "idle"

(***************************************************************************)
(* pipeline/rag.py: RAGPipeline construction, add_to_cache, from_cache.    *)
(***************************************************************************)
\* A write that is cut short leaves the file zero-length (opened, nothing
\* written) or with a prefix of the data that does not parse.
CutShort == {EmptyFile, CorruptFile}

\* what a cut write of a list leaves: nothing of an empty list reaches the file
CutOf(list, cut) == IF list = <<>> THEN EmptyFile ELSE cut

\* where a construction is interrupted (the process is killed)
Stops == {"none", "in_embeddings_write", "between_writes", "in_chunks_write"}

Built(p) == [op |-> "init", raised |-> Absent, pipe |-> p]
Failed(op, exception) == [op |-> op, raised |-> Present(exception), pipe |-> PipeOf(<<>>)]

\* RAGPipeline.__init__ of pipeline/rag.py with its call of add_to_cache:
\* the two cache files it leaves and the pipeline or the exception it gives.
\*   embedFails  the embedding provider raises
\*   asArray     the embedder returns a numpy array and not a list
\*   bm25Builds  BM25Okapi accepts the (empty) corpus it is given
\*   stop, cut   the interruption point and what an interrupted write leaves
RAGPipeline_init(chunksFile, embFileNpy, chunks, embedFails, asArray, bm25Builds, stop, cut) ==
    LET unchanged(result) ==
            [chunksFile |-> chunksFile, embFileNpy |-> embFileNpy, result |-> result]
        texts == [i \in DOMAIN chunks |-> chunks[i].text]
        embeddings == [i \in DOMAIN texts |-> Embedding(texts[i])]
        p == [chunks |-> chunks, embeddings |-> embeddings]
    IN
    IF chunks = <<>> /\ ~bm25Builds
    THEN unchanged(Failed("init", "ZeroDivisionError"))     \* BM25Index(self.texts, config)
    ELSE IF chunks # <<>> /\ embedFails
    THEN unchanged(Failed("init", "ProviderError"))         \* get_embedding_batch
    ELSE IF chunks # <<>> /\ asArray
    THEN unchanged(Failed("init", "ValueError"))            \* if self.embeddings: on an array
    ELSE
      \* add_to_cache: np.save only "if self.embeddings", then the chunk file
      LET savesEmbeddings == embeddings # <<>> IN
      IF stop = "in_embeddings_write" /\ savesEmbeddings
      THEN [chunksFile |-> chunksFile, embFileNpy |-> cut,
            result |-> Failed("init", "Interrupted")]
      ELSE IF stop = "between_writes"
      THEN [chunksFile |-> chunksFile,
            embFileNpy |-> IF savesEmbeddings THEN OkFile(embeddings) ELSE embFileNpy,
            result |-> Failed("init", "Interrupted")]
      ELSE IF stop = "in_chunks_write"
      THEN [chunksFile |-> CutOf(chunks, cut),
            embFileNpy |-> IF savesEmbeddings THEN OkFile(embeddings) ELSE embFileNpy,
            result |-> Failed("init", "Interrupted")]
      ELSE [chunksFile |-> OkFile(chunks),
            embFileNpy |-> IF savesEmbeddings THEN OkFile(embeddings) ELSE embFileNpy,
            result |-> Built(p)]

\* RAGPipeline.from_cache of pipeline/rag.py
RAGPipeline_from_cache(chunksFile, embFileNpy, bm25Builds) ==
    IF chunksFile.st = "absent" THEN Failed("from_cache", "FileNotFoundError")
    ELSE IF chunksFile.st # "ok" THEN Failed("from_cache", "JSONDecodeError")
    ELSE IF embFileNpy.st = "absent" THEN Failed("from_cache", "FileNotFoundError")
    ELSE IF embFileNpy.st # "ok" THEN Failed("from_cache", "ValueError")   \* np.load
    ELSE IF chunksFile.data = <<>> /\ ~bm25Builds
    THEN Failed("from_cache", "ZeroDivisionError")
    ELSE [op |-> "from_cache", raised |-> Absent,
          pipe |-> [chunks |-> chunksFile.data, embeddings |-> embFileNpy.data]]

CacheIdle ==
    /\ cachedChunks = AbsentFile
    /\ cachedEmbeddings = AbsentFile
    /\ buildResult = [op |-> "none", raised |-> Absent, pipe |-> PipeOf(<<>>)]

(***************************************************************************)
(* DocumentRAGSystem (system.py) over RAGPipeline of modules/rag.py.       *)
(***************************************************************************)
\* the order in which rglob("*.pdf") yields the paths
PathSeq == <<"f1.pdf", "f2.pdf", "f3.pdf">>

\* load_pdf: one entry per page; the sample files have one page per byte.  A
\* file of size 0, or one whose read raises, yields [] (here: no byte, no page).
load_pdf(path, file) ==
    [i \in 1..Len(file.content) |->
        [text |-> <<file.content[i]>>,
         metadata |-> [page |-> i, path |-> path, category |-> "docs",
                       filename |-> path]]]

\* allTexts after the loop over rglob, for the files of S
RECURSIVE LoadFrom(_, _, _)
LoadFrom(current, S, i) ==
    IF i > Len(PathSeq) THEN <<>>
    ELSE (IF PathSeq[i] \in S \cap DOMAIN current
          THEN load_pdf(PathSeq[i], current[PathSeq[i]])
          ELSE <<>>) \o LoadFrom(current, S, i + 1)

EmbedAll(chunks) == [i \in DOMAIN chunks |-> Embedding(chunks[i].text)]

\* what fails during a stage of initialize: the batch embedding call, a single
\* embedding call, or the import of get_embeddings in incremental_update (the
\* name is not defined by modules/embeddings.py as it stands)
EmbedFaults == {"none", "batch", "single", "import"}

\* where a stage is interrupted (the process is killed)
InitStops == {"none", "in_meta_write", "between_writes", "in_emb_write"}

NoPipe == PipeOf(<<>>)

\* outcome of a stage: the two artifacts, the pipeline or the exception, the
\* number of batch / single embedding calls made, and the chunks handed to the
\* batch embedder, in call order
Outcome(meta, emb, raised, p, batch, single, embedded) ==
    [meta |-> meta, emb |-> emb, raised |-> raised, pipe |-> p,
     batchCalls |-> batch, singleCalls |-> single, embedded |-> embedded]

\* RAGPipeline.__init__ of modules/rag.py with its call of add_to_cache
RAGPipeline_modules_init(meta, emb, chunks, fault, bm25Builds, stop, cut) ==
    IF chunks = <<>> /\ ~bm25Builds                 \* BM25Index(self.texts)
    THEN Outcome(meta, emb, Present("ZeroDivisionError"), NoPipe, 0, 0, <<>>)
    ELSE IF chunks # <<>> /\ fault = "batch"        \* self._embedder_batch(self.texts)
    THEN Outcome(meta, emb, Present("ProviderError"), NoPipe, 1, 0, chunks)
    ELSE
      LET batch == IF chunks = <<>> THEN 0 ELSE 1
          cacheData == [chunks |-> chunks, embeddings |-> EmbedAll(chunks)]
      IN IF stop = "in_emb_write"                   \* add_to_cache cut short
         THEN Outcome(meta, CutOf(chunks, cut), Present("Interrupted"), NoPipe, batch, 0,
                      chunks)
         ELSE IF fault = "single"                   \* create_category_embeddings
         THEN Outcome(meta, OkFile(cacheData), Present("ProviderError"), NoPipe, batch, 1,
                      chunks)
         ELSE Outcome(meta, OkFile(cacheData), Absent, cacheData, batch, 3, chunks)

\* RAGPipeline.from_cache of modules/rag.py (the file exists and is not empty)
RAGPipeline_modules_from_cache(meta, emb, fault, bm25Builds) ==
    IF emb.st # "ok"                                \* json.load(f)
    THEN Outcome(meta, emb, Present("JSONDecodeError"), NoPipe, 0, 0, <<>>)
    ELSE IF emb.data.chunks = <<>> /\ ~bm25Builds   \* BM25Index(obj.texts)
    THEN Outcome(meta, emb, Present("ZeroDivisionError"), NoPipe, 0, 0, <<>>)
    ELSE IF fault = "single"                        \* create_category_embeddings
    THEN Outcome(meta, emb, Present("ProviderError"), NoPipe, 0, 1, <<>>)
    ELSE IF Len(emb.data.embeddings) < Len(emb.data.chunks)     \* obj.embeddings[i]
    THEN Outcome(meta, emb, Present("IndexError"), NoPipe, 0, 3, <<>>)
    ELSE Outcome(meta, emb, Absent,
                 [chunks |-> emb.data.chunks, embeddings |-> emb.data.embeddings], 0, 3,
                 <<>>)

\* DocumentRAGSystem.data_pipeline
data_pipeline(meta, emb, current, fault, bm25Builds, stop, cut) ==
    LET allTexts == LoadFrom(current, DOMAIN current, 1)
        fileMetadata == [f \in DOMAIN current |-> FileRecord(current[f])]
    IN IF stop = "in_meta_write"
       THEN Outcome(cut, emb, Present("Interrupted"), NoPipe, 0, 0, <<>>)
       ELSE IF stop = "between_writes"
       THEN Outcome(OkFile(fileMetadata), emb, Present("Interrupted"), NoPipe, 0, 0, <<>>)
       ELSE RAGPipeline_modules_init(OkFile(fileMetadata), emb, allTexts, fault,
                                     bm25Builds, stop, cut)

\* the chunks of the snapshot kept by incremental_update
RECURSIVE KeepChunks(_, _)
KeepChunks(chunks, dropPaths) ==
    IF chunks = <<>> THEN <<>>
    ELSE (IF Head(chunks).metadata.path \in dropPaths THEN <<>> ELSE <<Head(chunks)>>)
         \o KeepChunks(Tail(chunks), dropPaths)

\* DocumentRAGSystem.incremental_update up to its except clause: an outcome,
\* with raised = "Exception" where the except clause falls back to data_pipeline
incremental_update_try(meta, emb, current, changes, fault, bm25Builds, stop, cut) ==
    IF emb.st # "ok"                                \* json.load(f) of embeddings.json
    THEN Outcome(meta, emb, Present("Exception"), NoPipe, 0, 0, <<>>)
    ELSE
      LET files_to_update == changes.changed_files \cup changes.new_files
          files_to_remove == changes.removed_files
          updated_chunks == KeepChunks(emb.data.chunks,
                                       files_to_update \cup files_to_remove)
          allTexts == LoadFrom(current, files_to_update, 1)
          firstBatch == IF allTexts = <<>> THEN 0 ELSE 1
          existing_metadata == meta.data
          fileMetadata ==
              [f \in DOMAIN current |->
                  IF f \in files_to_update \/ f \notin DOMAIN existing_metadata
                  THEN FileRecord(current[f])
                  ELSE existing_metadata[f]]
      IN IF allTexts # <<>> /\ fault = "import"     \* from .modules.embeddings import
         THEN Outcome(meta, emb, Present("Exception"), NoPipe, 0, 0, <<>>)
         ELSE IF allTexts # <<>> /\ fault = "batch" \* _embedder_batch(new_texts)
         THEN Outcome(meta, emb, Present("Exception"), NoPipe, 1, 0, allTexts)
         ELSE IF stop = "in_meta_write"
         THEN Outcome(cut, emb, Present("Interrupted"), NoPipe, firstBatch, 0, allTexts)
         ELSE IF stop = "between_writes"
         THEN Outcome(OkFile(fileMetadata), emb, Present("Interrupted"), NoPipe,
                      firstBatch, 0, allTexts)
         ELSE
           LET r == RAGPipeline_modules_init(OkFile(fileMetadata), emb,
                                             updated_chunks \o allTexts, fault,
                                             bm25Builds, stop, cut)
           IN [r EXCEPT !.batchCalls = @ + firstBatch,
                        !.embedded = allTexts \o @,
                        !.raised = IF @ \in {Absent, Present("Interrupted")}
                                   THEN @ ELSE Present("Exception")]

\* the branch DocumentRAGSystem.initialize takes
InitBranch(changes) ==
    IF changes.is_valid /\ changes.changed_files = {} /\ changes.new_files = {}
          /\ changes.removed_files = {}
    THEN "from_cache"
    ELSE IF changes.is_valid THEN "incremental"
    ELSE "full"

\* no initialize() ran in this process
NoInitResult ==
    [branch |-> "none", raised |-> Absent, batchCalls |-> 0, singleCalls |-> 0,
     embedded |-> <<>>, changes |-> Invalid]

SystemIdle ==
    /\ initResult = NoInitResult
    /\ ragPipeline = "None"
    /\ lastQuery = Absent

(***************************************************************************)
(* VectorDB (core/retrieval/vectordb.py and modules/vectordb.py).          *)
(* The index is the list of the vectors added to it; a vector has a        *)
(* dimension (its length) and the values it was computed from.             *)
(***************************************************************************)
None == <<"None">>              \* Python None stored in self.texts
NoneDict == [py |-> "None"]     \* Python None stored in self.metadata
EmptyDict == [py |-> "{}"]      \* metadata or {}

\* VectorDB.__init__
EmptyDb == [vectors |-> <<>>, texts |-> <<>>, metadata |-> <<>>]

\* an argument of add: None, one value, or a list of values
NoneArg == [kind |-> "None", v |-> <<>>]
One(value) == [kind |-> "one", v |-> <<value>>]
List(values) == [kind |-> "list", v |-> values]

\* `x` is true for a non-empty string, dict or list
Truthy(arg) == arg.kind # "None" /\ arg.v # <<>> /\ (arg.kind = "one" => arg.v[1] # <<>>)

\* np.array(vectors): a list of numbers is 1-D, a list of vectors is 2-D
Vector(v) == [ndim |-> 1, rows |-> <<v>>]
Batch(rows) == [ndim |-> 2, rows |-> rows]
Tensor == [ndim |-> 3, rows |-> <<>>]

AddOutcome(d, raised) == [db |-> d, raised |-> raised]

\* self.index.add(vectors) accepts rows of Dim numbers only
IndexAccepts(rows) == \A i \in DOMAIN rows : rows[i].dim = Dim

\* VectorDB.add of core/retrieval/vectordb.py
VectorDB_add(d, vectors, texts, metadata) ==
    IF vectors.ndim \notin {1, 2}
    THEN AddOutcome(d, Present("ValueError"))           \* Invalid vector shape
    ELSE
      LET textList == IF vectors.ndim = 1
                      THEN (IF Truthy(texts) THEN List(<<texts.v[1]>>) ELSE List(<<None>>))
                      ELSE texts
          metadataList == IF vectors.ndim = 1
                          THEN (IF Truthy(metadata) THEN List(<<metadata.v[1]>>)
                                ELSE List(<<NoneDict>>))
                          ELSE metadata
      IN IF ~IndexAccepts(vectors.rows)
         THEN AddOutcome(d, Present("AssertionError"))  \* self.index.add(vectors)
         ELSE LET d1 == [d EXCEPT !.vectors = @ \o vectors.rows] IN
              IF textList.kind = "None"                 \* self.texts.extend(None)
              THEN AddOutcome(d1, Present("TypeError"))
              ELSE LET d2 == [d1 EXCEPT !.texts = @ \o textList.v] IN
                   IF metadataList.kind = "None"        \* self.metadata.extend(None)
                   THEN AddOutcome(d2, Present("TypeError"))
                   ELSE AddOutcome([d2 EXCEPT !.metadata = @ \o metadataList.v], Absent)

\* VectorDB.add of modules/vectordb.py: one vector per call
VectorDB_modules_add(d, vector, text, metadata) ==
    IF vector.dim # Dim
    THEN AddOutcome(d, Present("AssertionError"))       \* self.index.add(vec)
    ELSE AddOutcome([vectors |-> Append(d.vectors, vector),
                     texts |-> Append(d.texts, IF text.kind = "None" THEN None
                                               ELSE text.v[1]),
                     metadata |-> Append(d.metadata,
                                         IF Truthy(metadata) THEN metadata.v[1]
                                         ELSE EmptyDict)],
                    Absent)

\* list[i] of Python for a 0-based i, negative i counting from the end
InRange(list, i) == IF i >= 0 THEN i < Len(list) ELSE -i <= Len(list)
PyIndex(list, i) == IF i >= 0 THEN list[i + 1] ELSE list[Len(list) + i + 1]

\* the label lists self.index.search(vec, k) can return: k row numbers of the
\* index, -1 from the position where the index has no further row
SearchLabels(d, k) ==
    LET n == Len(d.vectors)
        found == IF k <= n THEN k ELSE n
    IN {s \in [1..k -> (0..(n - 1)) \cup {-1}] :
           /\ \A i \in 1..found : s[i] >= 0
           /\ \A i \in (found + 1)..k : s[i] = -1
           /\ \A i, j \in 1..found : s[i] = s[j] => i = j}

\* VectorDB.search, given the labels the index returns
VectorDB_search(d, labels) ==
    IF \E i \in DOMAIN labels :
          ~InRange(d.texts, labels[i]) \/ ~InRange(d.metadata, labels[i])
    THEN Raised("IndexError")
    ELSE Returned([i \in DOMAIN labels |->
                      [text |-> PyIndex(d.texts, labels[i]),
                       metadata |-> PyIndex(d.metadata, labels[i]),
                       distance |-> Distance(labels[i] + 1, i)]])

\* self.db of a pipeline of pipeline/rag.py, after __init__ or from_cache:
\* db.add(self.embeddings, self.texts, metadataList), skipped for no texts
PipelineDb(p) ==
    IF p.embeddings = <<>> THEN EmptyDb
    ELSE VectorDB_add(EmptyDb, Batch(p.embeddings),
                      List([i \in DOMAIN p.chunks |-> p.chunks[i].text]),
                      List([i \in DOMAIN p.chunks |-> p.chunks[i].metadata])).db

\* self.db of a pipeline of modules/rag.py: db.add(embeddings[i], text, metadata)
\* for every chunk i
RECURSIVE ModulesDbFrom(_, _, _)
ModulesDbFrom(d, p, i) ==
    IF i > Len(p.chunks) THEN d
    ELSE ModulesDbFrom(VectorDB_modules_add(d, p.embeddings[i], One(p.chunks[i].text),
                                            One(p.chunks[i].metadata)).db,
                       p, i + 1)

ModulesDb(p) == ModulesDbFrom(EmptyDb, p, 1)

\* RAGPipeline.ask on a pipeline p whose vector index is d: lexRows are the
\* chunk positions bm25Index.search returns, labels the rows index.search returns
ask_db(v, p, d, history, query, fault, response, lexRows, labels) ==
    IF p.chunks = <<>> \/ Len(p.embeddings) = 0
    THEN Raise(ErrNoDocuments, NoCalls, history)
    ELSE IF fault = "embed"
    THEN Raise(ErrProvider("embed"), [NoCalls EXCEPT !.embed = 1], history)
    ELSE IF v = "modules"       \* self.bm25Index.search(query, k=BM25_K)
    THEN Raise(ErrSearchKeyword, [NoCalls EXCEPT !.embed = 1], history)
    ELSE
      LET bm25 == [i \in DOMAIN lexRows |->
                      [text |-> p.chunks[lexRows[i]].text,
                       metadata |-> p.chunks[lexRows[i]].metadata,
                       bm25_score |-> Present(Bm25Score(lexRows[i])),
                       distance |-> Absent, vector_distance |-> Absent,
                       source |-> "bm25"]]
          found == VectorDB_search(d, labels)
      IN IF found.raised # Absent      \* self.texts[match] in db.search
         THEN Raise(ErrIndex, [NoCalls EXCEPT !.embed = 1], history)
         ELSE
           LET vector == [i \in DOMAIN found.value |->
                             [text |-> found.value[i].text,
                              metadata |-> found.value[i].metadata,
                              bm25_score |-> Absent,
                              distance |-> Present(found.value[i].distance),
                              vector_distance |-> Absent, source |-> "vector"]]
               merged == MergeCandidates(v, bm25, vector)
               rerankCalls == IF merged = <<>> THEN 0 ELSE 1
               calls == [embed |-> 1, rerank |-> rerankCalls, llm |-> 0]
           IN IF fault = "rerank" /\ rerankCalls = 1
              THEN Raise(ErrProvider("rerank"), calls, history)
              ELSE IF fault = "llm"
              THEN Raise(ErrProvider("llm"), [calls EXCEPT !.llm = 1], history)
              ELSE [kind |-> "answer", error |-> Absent,
                    calls |-> [calls EXCEPT !.llm = 1],
                    history |-> add_to_conversation_history(history, query, response),
                    answer |-> Present(response)]

\* the chunk positions bm25Index.search can return for the pipeline p
LexPositions(p) ==
    {s \in SeqsUpTo(DOMAIN p.chunks, MaxLex) :
        IsInjective(s) /\ Len(s) = Min(MaxLex, Len(p.chunks))}

IndexIdle ==
    /\ db = EmptyDb
    /\ addResult = [op |-> "none", raised |-> Absent, rows |-> 0, before |-> 0]

(***************************************************************************)
(* BM25Index (core/retrieval/bm25.py and modules/bm25.py).                 *)
(***************************************************************************)
AlnumChars == {"a", "b", "c", "e", "h", "t", "1"}      \* [a-z0-9] of the sample texts
STOPWORDS == {<<"t", "h", "e">>, <<"a", "t">>}

\* re.findall(r"[a-z0-9]+", text): the maximal runs of characters of the class
RECURSIVE FindAll(_, _)
FindAll(text, run) ==
    IF text = <<>> THEN (IF run = <<>> THEN <<>> ELSE <<run>>)
    ELSE IF Head(text) \in AlnumChars
         THEN FindAll(Tail(text), Append(run, Head(text)))
         ELSE (IF run = <<>> THEN <<>> ELSE <<run>>) \o FindAll(Tail(text), <<>>)

KeepToken(token) == token \notin STOPWORDS /\ Len(token) >= 3

\* the token list _tokenize builds for one text
TokenizeText(text) == SelectSeq(FindAll(LowerStr(text), <<>>), KeepToken)

\* BM25Index._tokenize
BM25Index_tokenize(texts) == [i \in DOMAIN texts |-> TokenizeText(texts[i])]

\* iterating a str yields its characters
CharsOf(text) == [i \in DOMAIN text |-> <<text[i]>>]

Occurrences(token, tokens) == Cardinality({i \in DOMAIN tokens : tokens[i] = token})

\* BM25Okapi.get_scores for one document, as a whole number: every element of
\* the query adds the number of its occurrences among the document's tokens,
\* so a document that holds no element of the query scores 0.
RECURSIVE DocScore(_, _)
DocScore(tokens, queryElements) ==
    IF queryElements = <<>> THEN 0
    ELSE Occurrences(Head(queryElements), tokens) + DocScore(tokens, Tail(queryElements))

get_scores(index, queryElements) ==
    [i \in DOMAIN index.tokenizedTexts |-> DocScore(index.tokenizedTexts[i], queryElements)]

\* (a, i) < (b, j) on tuples
TupleLess(x, y) == x[1] < y[1] \/ (x[1] = y[1] /\ x[2] < y[2])

\* heapq._siftdown, positions counted from 0
RECURSIVE SiftDownFrom(_, _, _, _)
SiftDownFrom(heap, startpos, pos, newitem) ==
    IF pos > startpos /\ TupleLess(newitem, heap[((pos - 1) \div 2) + 1])
    THEN SiftDownFrom([heap EXCEPT ![pos + 1] = heap[((pos - 1) \div 2) + 1]],
                      startpos, (pos - 1) \div 2, newitem)
    ELSE [heap EXCEPT ![pos + 1] = newitem]

siftdown(heap, startpos, pos) == SiftDownFrom(heap, startpos, pos, heap[pos + 1])

\* the loop of heapq._siftup: the smaller child moves up until a leaf is reached
RECURSIVE SiftUpLoop(_, _, _)
SiftUpLoop(heap, pos, childpos) ==
    IF childpos < Len(heap)
    THEN LET rightpos == childpos + 1
             child == IF rightpos < Len(heap)
                         /\ ~TupleLess(heap[childpos + 1], heap[rightpos + 1])
                      THEN rightpos ELSE childpos
         IN SiftUpLoop([heap EXCEPT ![pos + 1] = heap[child + 1]], child, 2 * child + 1)
    ELSE [heap |-> heap, pos |-> pos]

\* heapq._siftup
siftup(heap, pos) ==
    LET newitem == heap[pos + 1]
        r == SiftUpLoop(heap, pos, 2 * pos + 1)
    IN siftdown([r.heap EXCEPT ![r.pos + 1] = newitem], pos, r.pos)

\* heapq.heappush
heappush(heap, item) == siftdown(Append(heap, item), 0, Len(heap))

\* heapq.heappushpop: the heap it leaves
heappushpop(heap, item) ==
    IF heap # <<>> /\ TupleLess(heap[1], item)
    THEN siftup([heap EXCEPT ![1] = item], 0)
    ELSE heap

\* the loop of search over enumerate(scores); sign is -1 where -score is pushed
RECURSIVE HeapOver(_, _, _, _, _)
HeapOver(heap, scores, i, topK, sign) ==
    IF i > Len(scores) THEN heap
    ELSE LET item == <<sign * scores[i], i - 1>> IN
         HeapOver(IF Len(heap) < topK THEN heappush(heap, item)
                                      ELSE heappushpop(heap, item),
                  scores, i + 1, topK, sign)

\* mutant: every document is pushed, whatever the size of the heap
BM25Index_search_NoCap(index, query, topK) ==
    LET heap == HeapOver(<<>>, get_scores(index, TokenizeText(query)), 1,
                         Len(index.texts) + topK, -1)
    IN [k \in DOMAIN heap |->
           [idx |-> heap[k][2], score |-> -heap[k][1],
            text |-> index.texts[heap[k][2] + 1]]]

\* BM25Index.search of core/retrieval/bm25.py: the (i, score, text) triples
BM25Index_search(index, query, topK) ==
    LET tokenizedQuery == TokenizeText(query)
        maxHeap == HeapOver(<<>>, get_scores(index, tokenizedQuery), 1, topK, -1)
    IN [k \in DOMAIN maxHeap |->
           [idx |-> maxHeap[k][2], score |-> -maxHeap[k][1],
            text |-> index.texts[maxHeap[k][2] + 1]]]

\* BM25Index.search of modules/bm25.py: get_scores is given the query string
BM25Index_modules_search(index, query, topK) ==
    LET minHeap == HeapOver(<<>>, get_scores(index, CharsOf(query)), 1, topK, 1)
    IN [k \in DOMAIN minHeap |->
           [idx |-> minHeap[k][2], score |-> minHeap[k][1],
            text |-> index.texts[minHeap[k][2] + 1]]]

LexIdle ==
    /\ lexTexts = <<>>
    /\ lexQuery = <<>>
    /\ lexTopK = 0
    /\ lexIndex = [texts |-> <<>>, tokenizedTexts |-> <<>>]
    /\ lexResults = <<>>
    /\ lexPc = "idle"

(***************************************************************************)
(* rerank_candidates (core/retrieval/reranker.py and modules/reranker.py). *)
(***************************************************************************)
\* c = dict(c); c["rerank_score"] = float(score)
WithRerankScore(candidate, score) == ("rerank_score" :> score) @@ candidate

\* mutant: a pair is placed before the pairs of equal score
InsertRanked_BeforeEqual(ranked, pair) ==
    LET before == {k \in DOMAIN ranked : ranked[k].score > pair.score}
        n == Cardinality(before)
    IN SubSeq(ranked, 1, n) \o <<pair>> \o SubSeq(ranked, n + 1, Len(ranked))

\* sorted(..., key=lambda x: x[0], reverse=True) is stable: a pair goes behind
\* the pairs of higher or equal score that precede it in the input
InsertRanked(ranked, pair) ==
    LET before == {k \in DOMAIN ranked : ranked[k].score >= pair.score}
        n == Cardinality(before)
    IN SubSeq(ranked, 1, n) \o <<pair>> \o SubSeq(ranked, n + 1, Len(ranked))

RECURSIVE SortedFrom(_, _, _)
SortedFrom(ranked, pairs, i) ==
    IF i > Len(pairs) THEN ranked
    ELSE SortedFrom(InsertRanked(ranked, pairs[i]), pairs, i + 1)

\* rerank_candidates, given the scores self.reranker.predict(pairs) returns
rerank_candidates(candidates, scores, topK) ==
    IF candidates = <<>>
    THEN [scores |-> <<>>, calls |-> 0, raised |-> Absent, value |-> <<>>]
    ELSE LET pairs == [i \in DOMAIN candidates |->
                          [score |-> scores[i], c |-> candidates[i]]]
             ranked == SortedFrom(<<>>, pairs, 1)
             top == SubSeq(ranked, 1, Min(topK, Len(ranked)))
         IN [scores |-> scores, calls |-> 1, raised |-> Absent,
             value |-> [k \in DOMAIN top |-> WithRerankScore(top[k].c, top[k].score)]]

RerankIdle ==
    /\ rerankCandidates = <<>>
    /\ rerankTopK = 0
    /\ rerankResult = [scores |-> <<>>, calls |-> 0, raised |-> Absent, value |-> <<>>]
    /\ rerankPc = "idle"
    /\ contextTopK = 0
    /\ lastMessages = Absent

\* no initialize() is in progress
NoRun ==
    [pc |-> "idle", branch |-> "none", chunks |-> <<>>, loaded |-> <<>>, target |-> 0,
     row |-> 0]

\* no query() is in progress; outcome tells how the last one ended
NoQueryRun(outcome) == [pc |-> "idle", ref |-> 0, reads |-> <<>>, outcome |-> outcome]

SwapIdle ==
    /\ objects = <<>>
    /\ generation = 0
    /\ ingestRun = NoRun
    /\ queryRun = NoQueryRun("none")

SearchIdle == searchCall = [k |-> 0, kind |-> "none"]

ChunkIdle == chunkRun = [pc |-> "idle"]

StepIdle == SwapIdle /\ SearchIdle /\ ChunkIdle

(***************************************************************************)
(* SpecMerge: the result lists are drawn from the bounded sets, then the   *)
(* merge runs once.                                                        *)
(***************************************************************************)
MergeIdle ==
    /\ variant = "pipeline"
    /\ bm25Candidates = <<>>
    /\ vectorCandidates = <<>>
    /\ mergedCandidates = <<>>
    /\ mergePc = "idle"

InitMerge ==
    /\ SystemIdle
    /\ IndexIdle
    /\ LexIdle
    /\ RerankIdle
    /\ StepIdle
    /\ QueryIdle
    /\ DiskIdle
    /\ DetectIdle
    /\ CacheIdle
    /\ variant \in {"pipeline", "modules"}
    /\ \E rows \in LexRowLists :
          bm25Candidates = [i \in DOMAIN rows |-> Bm25Candidate(rows[i])]
    /\ \E rows \in VecRowLists :
          vectorCandidates = [i \in DOMAIN rows |-> VectorCandidate(rows[i], i)]
    /\ mergedCandidates = <<>>
    /\ mergePc = "input"

Merge ==
    /\ mergePc = "input"
    /\ mergedCandidates' = MergeCandidates(variant, bm25Candidates, vectorCandidates)
    /\ mergePc' = "merged"
    /\ UNCHANGED <<variant, bm25Candidates, vectorCandidates>>
    /\ UNCHANGED <<queryVars, diskVars, detectVars, cacheVars, systemVars, indexVars, toolVars>>

NextMerge == Merge

(***************************************************************************)
(* Claims on the merge step.                                               *)
(***************************************************************************)
\* The deduplication key of the data model: the text without its leading and
\* trailing blanks, case-folded.
FirstNonBlank(text) ==
    IF \A i \in DOMAIN text : text[i] = " " THEN Len(text) + 1
    ELSE CHOOSE i \in DOMAIN text :
            text[i] # " " /\ \A j \in 1..(i - 1) : text[j] = " "

LastNonBlank(text) ==
    IF \A i \in DOMAIN text : text[i] = " " THEN 0
    ELSE CHOOSE i \in DOMAIN text :
            text[i] # " " /\ \A j \in (i + 1)..Len(text) : text[j] = " "

Fold(c) == IF c \in {"A", "a"} THEN "a" ELSE IF c \in {"B", "b"} THEN "b"
           ELSE IF c \in {"C", "c"} THEN "c" ELSE c

DedupKey(text) ==
    LET f == FirstNonBlank(text)
        l == LastNonBlank(text)
    IN [i \in 1..(l - f + 1) |-> Fold(text[f + i - 1])]

KeysOf(cands) == {DedupKey(cands[i].text) : i \in DOMAIN cands}

\* C9: after the merge step the merged candidate list holds at most one
\* candidate per deduplication key (text trimmed and case-folded), whatever
\* the lexical and vector result lists are, repeated texts included.
C9_OnePerKey ==
    mergePc = "merged" =>
        \A i, j \in DOMAIN mergedCandidates :
            DedupKey(mergedCandidates[i].text) = DedupKey(mergedCandidates[j].text)
                => i = j

\* C9 witness: a merge ran on a vector list that repeats a text and on a lexical
\* list that holds two texts of one key, and dropped the duplicates.
C9_Witness ==
    /\ mergePc = "merged"
    /\ Len(vectorCandidates) = 2
    /\ vectorCandidates[1].text = vectorCandidates[2].text
    /\ Len(bm25Candidates) = 2
    /\ bm25Candidates[1].text # bm25Candidates[2].text
    /\ DedupKey(bm25Candidates[1].text) = DedupKey(bm25Candidates[2].text)
    /\ Len(mergedCandidates) = 2

\* the entry of the merged list that holds key k
EntriesWithKey(k) ==
    {i \in DOMAIN mergedCandidates : DedupKey(mergedCandidates[i].text) = k}

\* C10: a vector candidate whose key matches a candidate taken from the lexical
\* results adds no entry; the existing entry (the first lexical candidate of
\* that key) becomes hybrid and carries its lexical score and the distance of
\* a matching vector candidate; the merged list has one entry per key of the
\* two lists, so lexical {A,B} and vector {B,C} merge to 3 candidates.
C10_HybridOnMatch ==
    mergePc = "merged" =>
        /\ Cardinality(DOMAIN mergedCandidates)
              = Cardinality(KeysOf(bm25Candidates) \cup KeysOf(vectorCandidates))
        /\ \A v \in DOMAIN vectorCandidates :
              LET k == DedupKey(vectorCandidates[v].text) IN
              k \in KeysOf(bm25Candidates) =>
                \E e \in DOMAIN mergedCandidates :
                    LET b == CHOOSE i \in DOMAIN bm25Candidates :
                                /\ DedupKey(bm25Candidates[i].text) = k
                                /\ \A j \in 1..(i - 1) :
                                      DedupKey(bm25Candidates[j].text) # k
                    IN /\ EntriesWithKey(k) = {e}
                       /\ mergedCandidates[e].text = bm25Candidates[b].text
                       /\ mergedCandidates[e].metadata = bm25Candidates[b].metadata
                       /\ mergedCandidates[e].source = "hybrid"
                       /\ mergedCandidates[e].bm25_score = bm25Candidates[b].bm25_score
                       /\ mergedCandidates[e].bm25_score # Absent
                       /\ mergedCandidates[e].vector_distance # Absent
                       /\ \E w \in DOMAIN vectorCandidates :
                             /\ DedupKey(vectorCandidates[w].text) = k
                             /\ mergedCandidates[e].vector_distance
                                   = vectorCandidates[w].distance

\* C10 witness: lexical {A,B}, vector {B,C} with B the same text, merged to
\* three candidates with B hybrid.
C10_Witness ==
    /\ mergePc = "merged"
    /\ Len(bm25Candidates) = 2 /\ Len(vectorCandidates) = 2
    /\ bm25Candidates[2].text = vectorCandidates[1].text
    /\ Cardinality(KeysOf(bm25Candidates) \cup KeysOf(vectorCandidates)) = 3
    /\ Len(mergedCandidates) = 3
    /\ mergedCandidates[2].source = "hybrid"
    /\ mergedCandidates[2].bm25_score # Absent
    /\ mergedCandidates[2].vector_distance = vectorCandidates[1].distance

SpecMerge == InitMerge /\ [][NextMerge]_vars

(***************************************************************************)
(* SpecQuery: a pipeline built over no chunk or over QueryRows is queried. *)
(***************************************************************************)
InitQuery ==
    /\ SystemIdle
    /\ IndexIdle
    /\ LexIdle
    /\ RerankIdle
    /\ StepIdle
    /\ MergeIdle
    /\ DiskIdle
    /\ DetectIdle
    /\ CacheIdle
    /\ pipe \in {PipeOf(<<>>), PipeOf(QueryRows)}
    /\ conversationHistory = <<>>
    /\ lastAsk = [kind |-> "none", error |-> Absent, calls |-> NoCalls,
                  fault |-> "none"]
    /\ askLog = <<>>

\* one call of pipeline.ask(query)
Ask ==
    /\ Len(askLog) < MaxAsks
    /\ \E query \in Queries, fault \in Faults, response \in Responses :
       \E lexRows \in (IF pipe.chunks = <<>> THEN {<<>>} ELSE AskLexLists(pipe)),
          vecRows \in (IF pipe.chunks = <<>> THEN {<<>>} ELSE AskVecLists(pipe)) :
       \E r \in {ask(variant, pipe, conversationHistory, query, fault, response,
                      lexRows, vecRows)} :
             /\ conversationHistory' = r.history
             /\ lastAsk' = [kind |-> r.kind, error |-> r.error, calls |-> r.calls,
                            fault |-> fault]
             /\ askLog' = IF r.kind = "answer"
                          THEN Append(askLog, Turn(query, response))
                          ELSE askLog
    /\ UNCHANGED pipe
    /\ UNCHANGED <<mergeVars, diskVars, detectVars, cacheVars, systemVars, indexVars, toolVars>>

NextQuery == Ask

(***************************************************************************)
(* Claims on ask and the conversation history.                             *)
(***************************************************************************)
\* C6: the conversation history never holds more than maxHistory turns and is
\* always the most recent answered turns in the order they were asked: every
\* answered query adds its turn at the end and, past the bound, the oldest turn
\* is the one that goes (11 answered queries leave 10 turns).
C6_HistoryBounded ==
    LET n == Len(askLog)
        m == IF n <= maxHistory THEN n ELSE maxHistory
    IN /\ Len(conversationHistory) <= maxHistory
       /\ conversationHistory = SubSeq(askLog, n - m + 1, n)
       /\ (n = maxHistory + 1 => Len(conversationHistory) = maxHistory)

\* C6 witness: eleven queries were answered, ten turns are kept and the first
\* one, which differs from the second, is gone.
C6_Witness ==
    /\ Len(askLog) = maxHistory + 1
    /\ Len(conversationHistory) = maxHistory
    /\ askLog[1] # askLog[2]
    /\ conversationHistory[1] = askLog[2]
    /\ conversationHistory[maxHistory] = askLog[maxHistory + 1]

Providers == {"embed", "rerank", "llm"}

\* C7: when the embedding, rerank or LLM call of a query fails, ask raises that
\* provider's error, the failed provider was called once and no provider more
\* than once, and the conversation history is what it was before the query.
C7_ProviderFailureTerminal ==
    [][ (pipe.chunks # <<>> /\ lastAsk'.fault # "none") =>
            /\ lastAsk'.kind = "raise"
            /\ lastAsk'.error = ErrProvider(lastAsk'.fault)
            /\ lastAsk'.calls[lastAsk'.fault] = 1
            /\ \A provider \in Providers : lastAsk'.calls[provider] <= 1
            /\ conversationHistory' = conversationHistory
            /\ askLog' = askLog ]_vars

\* C7 witness: the LLM call failed after two answered queries and the two turns
\* are still the history.
C7_Witness ==
    /\ lastAsk.kind = "raise"
    /\ lastAsk.error = ErrProvider("llm")
    /\ lastAsk.calls = [embed |-> 1, rerank |-> 1, llm |-> 1]
    /\ Len(conversationHistory) = 2
    /\ conversationHistory = askLog

\* C8: a query on a pipeline with zero indexed chunks raises the no-documents
\* error, which is no provider error, before any provider is called, and the
\* conversation history is empty.
C8_EmptyCorpusError ==
    (pipe.chunks = <<>> /\ lastAsk.kind # "none") =>
        /\ lastAsk.kind = "raise"
        /\ lastAsk.error = ErrNoDocuments
        /\ \A provider \in Providers : lastAsk.error # ErrProvider(provider)
        /\ lastAsk.calls = NoCalls
        /\ conversationHistory = <<>>

\* C8 witness: a pipeline without chunks was queried while the embedding
\* provider was down, and no provider was reached.
C8_Witness ==
    /\ pipe.chunks = <<>>
    /\ lastAsk.kind = "raise"
    /\ lastAsk.fault = "embed"
    /\ lastAsk.calls = NoCalls

SpecQuery == InitQuery /\ [][NextQuery]_vars

(***************************************************************************)
(* SpecCache: pipelines are built over chunk lists and reloaded, with the  *)
(* two cache files of pipeline/rag.py starting absent.                     *)
(***************************************************************************)
MaxChunks == 2      \* longest chunk list a pipeline is built over

BuildRows == {1, 3}
ChunkLists == {[i \in DOMAIN rows |-> Chunk(rows[i])] : rows \in SeqsUpTo(BuildRows, MaxChunks)}

InitCache ==
    /\ SystemIdle
    /\ IndexIdle
    /\ LexIdle
    /\ RerankIdle
    /\ StepIdle
    /\ MergeIdle
    /\ QueryIdle
    /\ DiskIdle
    /\ DetectIdle
    /\ CacheIdle

MaxCacheAsks == 1   \* answered queries per pipeline object

\* self.conversationHistory = [] of a new pipeline object
NewHistory ==
    /\ conversationHistory' = <<>>
    /\ lastAsk' = [kind |-> "none", error |-> Absent, calls |-> NoCalls,
                   fault |-> "none"]
    /\ askLog' = <<>>

\* RAGPipeline(chunks, config, ...) of pipeline/rag.py
Construct ==
    /\ \E chunks \in ChunkLists, embedFails \in BOOLEAN, asArray \in BOOLEAN,
          bm25Builds \in BOOLEAN, stop \in Stops, cut \in CutShort :
       \E r \in {RAGPipeline_init(cachedChunks, cachedEmbeddings, chunks, embedFails,
                                   asArray, bm25Builds, stop, cut)} :
          /\ cachedChunks' = r.chunksFile
          /\ cachedEmbeddings' = r.embFileNpy
          /\ buildResult' = r.result
          /\ pipe' = r.result.pipe
          /\ db' = PipelineDb(r.result.pipe)
    /\ NewHistory
    /\ UNCHANGED <<mergeVars, diskVars, detectVars, systemVars, addResult, toolVars>>

\* RAGPipeline.from_cache(config, cachedChunks, cachedEmbeddings, ...)
FromCache ==
    /\ \E bm25Builds \in BOOLEAN :
       \E r \in {RAGPipeline_from_cache(cachedChunks, cachedEmbeddings, bm25Builds)} :
          /\ buildResult' = r
          /\ pipe' = r.pipe
          /\ db' = PipelineDb(r.pipe)
    /\ NewHistory
    /\ UNCHANGED <<cachedChunks, cachedEmbeddings>>
    /\ UNCHANGED <<mergeVars, diskVars, detectVars, systemVars, addResult, toolVars>>

\* pipeline.ask(query) on the pipeline the last construction or from_cache gave
AskBuilt ==
    /\ buildResult.op # "none" /\ buildResult.raised = Absent
    /\ Len(askLog) < MaxCacheAsks
    /\ \E query \in Queries, fault \in Faults, response \in Responses :
       \E lexRows \in LexPositions(pipe), labels \in SearchLabels(db, MaxVec) :
       \E r \in {ask_db(variant, pipe, db, conversationHistory, query, fault, response,
                         lexRows, labels)} :
             /\ conversationHistory' = r.history
             /\ lastAsk' = [kind |-> r.kind, error |-> r.error, calls |-> r.calls,
                            fault |-> fault]
             /\ askLog' = IF r.kind = "answer"
                          THEN Append(askLog, Turn(query, response))
                          ELSE askLog
    /\ UNCHANGED pipe
    /\ UNCHANGED <<mergeVars, diskVars, detectVars, cacheVars, systemVars, indexVars,
                   toolVars>>

NextCache == Construct \/ FromCache \/ AskBuilt

\* chunks[i] is stored with the embedding of chunks[i]
Paired(chunks, embeddings) ==
    /\ Len(chunks) = Len(embeddings)
    /\ \A i \in DOMAIN chunks : embeddings[i] = Embedding(chunks[i].text)

\* C1: in every persisted snapshot, after any sequence of builds and also when
\* a build is interrupted between its writes, the stored chunk list and the
\* stored embedding list have the same length and chunks[i] is stored with the
\* embedding of chunks[i].
C1_SnapshotPaired ==
    /\ (cachedChunks.st = "ok" /\ cachedEmbeddings.st = "ok") =>
          Paired(cachedChunks.data, cachedEmbeddings.data)
    /\ embFile.st = "ok" => Paired(embFile.data.chunks, embFile.data.embeddings)

\* C12: a pipeline that from_cache reconstructed from the persisted snapshot has
\* a vector index, a text array and a metadata array of the length of the
\* snapshot's chunk list, row i holding the embedding, text and metadata of
\* chunk i, and a query on it raises no index error.
C12_ReloadLockstep ==
    (buildResult.op = "from_cache" /\ buildResult.raised = Absent) =>
        LET chunks == cachedChunks.data IN
        /\ Len(db.vectors) = Len(chunks)
        /\ Len(db.texts) = Len(chunks)
        /\ Len(db.metadata) = Len(chunks)
        /\ \A i \in DOMAIN chunks :
              /\ db.vectors[i] = Embedding(chunks[i].text)
              /\ db.texts[i] = chunks[i].text
              /\ db.metadata[i] = chunks[i].metadata
        /\ lastAsk.kind = "raise" => lastAsk.error # ErrIndex

SpecCache == InitCache /\ [][NextCache]_vars

(***************************************************************************)
(* SpecIngest: the data directory is edited between process starts; every  *)
(* start runs DocumentRAGSystem.initialize on what the cache directory     *)
(* holds.                                                                  *)
(***************************************************************************)
IngestPaths == {"f1.pdf", "f2.pdf"}

\* the files dataDir can hold: readable ones and one that yields no chunk
IngestFiles == Files \cup {EmptyPdf}

InitIngest ==
    /\ MergeIdle
    /\ QueryIdle
    /\ DetectIdle
    /\ CacheIdle
    /\ SystemIdle
    /\ IndexIdle
    /\ LexIdle
    /\ RerankIdle
    /\ StepIdle
    /\ corpus \in PartialMaps(IngestPaths, IngestFiles)
    /\ metaFile = AbsentFile
    /\ embFile = AbsentFile

Finish(branch, changes, r) ==
    /\ metaFile' = r.meta
    /\ embFile' = r.emb
    /\ pipe' = r.pipe
    /\ initResult' = [branch |-> branch, raised |-> r.raised,
                      batchCalls |-> r.batchCalls, singleCalls |-> r.singleCalls,
                      embedded |-> r.embedded, changes |-> changes]
    /\ ragPipeline' = IF r.raised = Absent THEN "RAGPipeline" ELSE "None"
    /\ db' = ModulesDb(r.pipe)

\* what can go wrong outside the code during one stage of initialize
StageEvents == [fault : EmbedFaults, stop : InitStops, cut : CutShort]

\* a process start: DocumentRAGSystem(...).initialize()
Initialize ==
    /\ \E bm25Builds \in BOOLEAN :
       \E changes \in {System_get_file_changes(metaFile, embFile, corpus)} :
          \/ /\ InitBranch(changes) = "from_cache"
             /\ \E r \in {RAGPipeline_modules_from_cache(metaFile, embFile, e.fault,
                                                          bm25Builds) :
                                e \in StageEvents} :
                   Finish("from_cache", changes, r)
          \/ /\ InitBranch(changes) = "incremental"
             /\ \E r \in {incremental_update_try(metaFile, embFile, corpus, changes,
                                                  e.fault, bm25Builds, e.stop, e.cut) :
                                e \in StageEvents} :
                   IF r.raised # Present("Exception")
                   THEN Finish("incremental", changes, r)
                   ELSE \* except Exception: return self.data_pipeline()
                        \E r2 \in {data_pipeline(r.meta, r.emb, corpus, e.fault,
                                                  bm25Builds, e.stop, e.cut) :
                                        e \in StageEvents} :
                           Finish("incremental_fallback_full", changes,
                                  [r2 EXCEPT !.batchCalls = @ + r.batchCalls,
                                             !.singleCalls = @ + r.singleCalls,
                                             !.embedded = r.embedded \o @])
          \/ /\ InitBranch(changes) = "full"
             /\ \E r \in {data_pipeline(metaFile, embFile, corpus, e.fault, bm25Builds,
                                         e.stop, e.cut) :
                                e \in StageEvents} :
                   Finish("full", changes, r)
    /\ fileChanges' = fileChanges
    /\ UNCHANGED <<corpus, conversationHistory, lastAsk, askLog>>
    /\ UNCHANGED <<mergeVars, loadResult, detectPc, cacheVars, lastQuery, addResult, toolVars>>

EnvUnchanged ==
    /\ initResult' = NoInitResult
    /\ pipe' = NoPipe
    /\ ragPipeline' = "None"
    /\ db' = EmptyDb
    /\ UNCHANGED <<metaFile, embFile, conversationHistory, lastAsk, askLog>>
    /\ UNCHANGED <<mergeVars, detectVars, cacheVars, lastQuery, addResult, toolVars>>

\* the user saves a file into dataDir (a new file, new content, or a new mtime)
WriteFile ==
    /\ \E path \in IngestPaths, file \in IngestFiles :
          /\ path \in DOMAIN corpus => corpus[path] # file
          /\ corpus' = [f \in DOMAIN corpus \cup {path} |->
                            IF f = path THEN file ELSE corpus[f]]
    /\ EnvUnchanged

\* the user deletes a file from dataDir
RemoveFile ==
    /\ \E path \in DOMAIN corpus :
          corpus' = [f \in DOMAIN corpus \ {path} |-> corpus[f]]
    /\ EnvUnchanged

NextIngest == Initialize \/ WriteFile \/ RemoveFile

(***************************************************************************)
(* Claims on initialize.                                                   *)
(***************************************************************************)
\* both artifacts are present and parse
ValidCache == metaFile.st = "ok" /\ embFile.st = "ok"

\* the corpus holds the files the metadata records, with the recorded content
UnchangedCorpus ==
    /\ DOMAIN metaFile.data = DOMAIN corpus
    /\ \A f \in DOMAIN corpus :
          metaFile.data[f].fileHash = get_file_hash(corpus[f].content)

\* the step is a run of initialize
InitializeRan == initResult'.branch # "none"

\* C2: initialize over an unchanged corpus with a valid cache leaves both
\* persisted artifacts as they were and makes no batch embedding call; when it
\* returns, the pipeline was loaded from the cache and holds the snapshot.
C2_ReingestIdempotent ==
    [][ (InitializeRan /\ ValidCache /\ UnchangedCorpus) =>
            /\ metaFile' = metaFile
            /\ embFile' = embFile
            /\ initResult'.batchCalls = 0
            /\ initResult'.raised = Absent =>
                  /\ initResult'.branch = "from_cache"
                  /\ pipe'.chunks = embFile.data.chunks
                  /\ pipe'.embeddings = embFile.data.embeddings ]_vars

\* C2 witness: a start loaded the three chunks of two unchanged files from the
\* cache.
C2_Witness ==
    /\ initResult.branch = "from_cache"
    /\ initResult.raised = Absent
    /\ initResult.batchCalls = 0
    /\ ValidCache /\ UnchangedCorpus
    /\ DOMAIN corpus = IngestPaths
    /\ Len(pipe.chunks) = 3
    /\ pipe.chunks = embFile.data.chunks

\* an artifact is absent, zero-length or does not parse
CacheBroken == metaFile.st # "ok" \/ embFile.st # "ok"

CacheErrors ==
    {Present("JSONDecodeError"), Present("FileNotFoundError"), Present("IndexError")}

\* C4: when initialize starts on a cache artifact that is absent, zero-length
\* or corrupt, it takes the full ingestion and raises no cache error.
C4_BrokenCacheRebuilds ==
    [][ (InitializeRan /\ CacheBroken) =>
            /\ initResult'.branch \in {"full", "incremental_fallback_full"}
            /\ initResult'.raised \notin CacheErrors ]_vars

\* the last start ran the full ingestion (directly or as the fallback)
FullRun == initResult.branch \in {"full", "incremental_fallback_full"}

\* the files of dataDir that load_pdf gets chunks from
Loadable == {f \in DOMAIN corpus : corpus[f].content # <<>>}

\* failures that do not come from loading a file: a provider call or a kill
OutsideFailures == {Present("ProviderError"), Present("Interrupted")}

\* C16: in a full ingestion run a file that fails to load is skipped and does
\* not abort the run: the run fails only for an outside reason and, when it
\* succeeds, the pipeline holds the chunks of exactly the files that loaded;
\* when no file loaded, the run fails instead of returning an empty pipeline.
C16_PartialFailure ==
    FullRun =>
        /\ Loadable # {} => initResult.raised \in {Absent} \cup OutsideFailures
        /\ initResult.raised = Absent =>
              /\ {pipe.chunks[i].metadata.path : i \in DOMAIN pipe.chunks} = Loadable
              /\ \A f \in Loadable :
                    Cardinality({i \in DOMAIN pipe.chunks :
                                    pipe.chunks[i].metadata.path = f})
                        = Len(corpus[f].content)
        /\ Loadable = {} => initResult.raised # Absent

\* the files of dataDir the snapshot does not record, or records with other bytes
AddedOrChanged ==
    {f \in DOMAIN corpus :
        \/ f \notin DOMAIN metaFile.data
        \/ metaFile.data[f].fileHash # get_file_hash(corpus[f].content)}

\* chunk i of the new pipeline is stored in the previous snapshot with the
\* embedding the pipeline holds for it
KeptFromSnapshot(i) ==
    \E j \in DOMAIN embFile.data.chunks \cap DOMAIN embFile.data.embeddings :
        /\ embFile.data.chunks[j] = pipe'.chunks[i]
        /\ embFile.data.embeddings[j] = pipe'.embeddings[i]

\* C17: an incremental run hands the batch embedder only chunks of added or
\* changed files, and every chunk of an unchanged file keeps the embedding the
\* previous snapshot stores for it.
C17_EmbedOnlyChanged ==
    [][ (InitializeRan /\ initResult'.branch = "incremental") =>
            /\ \A i \in DOMAIN initResult'.embedded :
                  initResult'.embedded[i].metadata.path \in AddedOrChanged
            /\ initResult'.raised = Absent =>
                  \A i \in DOMAIN pipe'.chunks :
                      pipe'.chunks[i].metadata.path \notin AddedOrChanged =>
                          KeptFromSnapshot(i) ]_vars

\* the chunks of the list that come from the file at path, in list order
ChunksOfPath(chunks, path) ==
    KeepChunks(chunks, {PathSeq[i] : i \in DOMAIN PathSeq} \ {path})

\* the last start took the cache as valid and up to date and loaded it
LoadedFromCache == initResult.branch = "from_cache" /\ initResult.raised = Absent

\* C26: whenever a start loads from cache, the snapshot it loads holds, for
\* every file whose current hash the file metadata records, the chunks of the
\* current content of that file; a run that failed between the two writes
\* does not leave a cache that a later start accepts.
C26_CacheConsistent ==
    LoadedFromCache =>
        \A f \in DOMAIN corpus :
            (/\ f \in DOMAIN metaFile.data
             /\ metaFile.data[f].fileHash = get_file_hash(corpus[f].content))
               => /\ ChunksOfPath(embFile.data.chunks, f) = load_pdf(f, corpus[f])
                  /\ ChunksOfPath(pipe.chunks, f) = load_pdf(f, corpus[f])

\* how often the chunk occurs in the list
CountIn(list, chunk) == Cardinality({i \in DOMAIN list : list[i] = chunk})

\* the two lists hold the same chunks the same number of times
SameCollection(a, b) ==
    /\ Len(a) = Len(b)
    /\ \A i \in DOMAIN a : CountIn(a, a[i]) = CountIn(b, a[i])

\* the last start ran incremental_update to its end, without the fallback
IncrementalDone == initResult.branch = "incremental" /\ initResult.raised = Absent

\* C27: after an incremental update the chunks of the new snapshot and of the
\* pipeline are, as a collection, the chunks a full rebuild of the current
\* corpus produces: every chunk of every current file once, none of a removed
\* file and none of the previous version of a changed file.
C27_IncrementalIsFull ==
    IncrementalDone =>
        /\ SameCollection(pipe.chunks, LoadFrom(corpus, DOMAIN corpus, 1))
        /\ embFile.st = "ok"
        /\ SameCollection(embFile.data.chunks, LoadFrom(corpus, DOMAIN corpus, 1))

SpecIngest == InitIngest /\ [][NextIngest]_vars

(***************************************************************************)
(* SpecDetect: change detection and the cache loads, applied to a prior    *)
(* snapshot and a current corpus drawn from the bounded sets.              *)
(***************************************************************************)
DetectPaths == {"f1.pdf", "f2.pdf", "f3.pdf"}   \* paths a current file can have
GonePath == "f4.pdf"                            \* a path that is no longer in dataDir
GoneRecord == FileRecord([content |-> <<"x">>, mtime |-> 1])

\* the maps file_metadata.json can hold: records written for earlier files
MetadataMaps ==
    {m @@ g : m \in PartialMaps(DetectPaths, {FileRecord(f) : f \in Files}),
              g \in {<<>>, (GonePath :> GoneRecord)}}

SampleSnapshot == [chunks |-> <<>>, embeddings |-> <<>>]

InitDetect ==
    /\ SystemIdle
    /\ IndexIdle
    /\ LexIdle
    /\ RerankIdle
    /\ StepIdle
    /\ MergeIdle
    /\ QueryIdle
    /\ CacheIdle
    /\ corpus \in PartialMaps(DetectPaths, Files)
    /\ \/ metaFile \in {OkFile(m) : m \in MetadataMaps}
       \/ metaFile \in {AbsentFile, EmptyFile, CorruptFile}
    /\ embFile \in {AbsentFile, EmptyFile, CorruptFile, OkFile(SampleSnapshot)}
    /\ fileChanges = NoFileChanges
    /\ loadResult = [op |-> "none", raised |-> Absent, value |-> <<>>]
    /\ detectPc = "input"

\* cacheManager.get_file_changes()
CacheManagerGetFileChanges ==
    /\ detectPc = "input"
    /\ \E r \in {CacheManager_get_file_changes(metaFile, embFile, corpus)} :
          fileChanges' = [by |-> "CacheManager", is_valid |-> Absent,
                          changed |-> r.changedFiles, added |-> r.newFiles,
                          removed |-> r.removedFiles]
    /\ detectPc' = "done"
    /\ UNCHANGED <<loadResult, diskVars, mergeVars, queryVars, cacheVars, systemVars,
                   indexVars, toolVars>>

\* system.get_file_changes()
SystemGetFileChanges ==
    /\ detectPc = "input"
    /\ \E r \in {System_get_file_changes(metaFile, embFile, corpus)} :
          fileChanges' = [by |-> "DocumentRAGSystem", is_valid |-> Present(r.is_valid),
                          changed |-> r.changed_files, added |-> r.new_files,
                          removed |-> r.removed_files]
    /\ detectPc' = "done"
    /\ UNCHANGED <<loadResult, diskVars, mergeVars, queryVars, cacheVars, systemVars,
                   indexVars, toolVars>>

\* cacheManager.load_embeddings_cache()
LoadEmbeddingsCache ==
    /\ detectPc = "input"
    /\ \E r \in {load_embeddings_cache(embFile)} :
          loadResult' = [op |-> "load_embeddings_cache", raised |-> r.raised,
                         value |-> r.value]
    /\ detectPc' = "done"
    /\ UNCHANGED <<fileChanges, diskVars, mergeVars, queryVars, cacheVars, systemVars,
                   indexVars, toolVars>>

\* cacheManager.load_file_metadata()
LoadFileMetadata ==
    /\ detectPc = "input"
    /\ \E r \in {load_file_metadata(metaFile)} :
          loadResult' = [op |-> "load_file_metadata", raised |-> r.raised,
                         value |-> r.value]
    /\ detectPc' = "done"
    /\ UNCHANGED <<fileChanges, diskVars, mergeVars, queryVars, cacheVars, systemVars,
                   indexVars, toolVars>>

\* cacheManager.update_file_metadata(fileChanges) with the result of the
\* get_file_changes call before it
UpdateFileMetadata ==
    /\ detectPc = "done"
    /\ fileChanges.by = "CacheManager"
    /\ \E r \in {CacheManager_update_file_metadata(metaFile, corpus,
                      [changedFiles |-> fileChanges.changed,
                       newFiles |-> fileChanges.added,
                       removedFiles |-> fileChanges.removed])} :
          /\ metaFile' = r.meta
          /\ loadResult' = [op |-> "update_file_metadata", raised |-> r.raised,
                            value |-> <<>>]
    /\ detectPc' = "updated"
    /\ UNCHANGED <<corpus, embFile, fileChanges, mergeVars, queryVars, cacheVars,
                   systemVars, indexVars, toolVars>>

NextDetect ==
    \/ CacheManagerGetFileChanges
    \/ SystemGetFileChanges
    \/ LoadEmbeddingsCache
    \/ LoadFileMetadata
    \/ UpdateFileMetadata

(***************************************************************************)
(* Claims on change detection and the cache loads.                         *)
(***************************************************************************)
Current == DOMAIN corpus
Recorded == DOMAIN metaFile.data

\* a prior snapshot exists: the metadata parses and both artifacts are non-empty
SnapshotValid == metaFile.st = "ok" /\ embFile.st \notin {"absent", "empty"}

Detected == detectPc = "done" /\ fileChanges.by # "none"

\* paths present now and in the snapshot whose bytes are not the recorded ones
ContentModified ==
    {f \in Current \cap Recorded :
        get_file_hash(corpus[f].content) # metaFile.data[f].fileHash}

MtimeDiffers ==
    {f \in Current \cap Recorded :
        corpus[f].mtime # metaFile.data[f].fileModifiedTime}

AddedRemovedExact ==
    /\ fileChanges.added = Current \ Recorded
    /\ fileChanges.removed = Recorded \ Current
    /\ fileChanges.added \cap fileChanges.removed = {}
    /\ fileChanges.added \cap fileChanges.changed = {}
    /\ fileChanges.changed \cap fileChanges.removed = {}
    /\ \A f \in (Current \cap Recorded) \ ContentModified :
          f \notin fileChanges.added \cup fileChanges.changed \cup fileChanges.removed

\* C3 as stated: for every prior snapshot and current corpus, added, removed and
\* changed are exactly the new paths, the vanished paths and the paths present in
\* both whose content was modified; the sets are disjoint and hold no unchanged
\* file.
C3_ExactChanges ==
    (Detected /\ SnapshotValid) =>
        /\ AddedRemovedExact
        /\ fileChanges.changed = ContentModified

\* C3 amended: as C3, except that changed is the set of content-modified paths
\* for DocumentRAGSystem.get_file_changes and, for
\* CacheManager.get_file_changes, the set of content-modified paths whose
\* modified time also differs from the recorded one.
C3_ChangesByMtimeAndHash ==
    (Detected /\ SnapshotValid) =>
        /\ AddedRemovedExact
        /\ fileChanges.by = "DocumentRAGSystem" =>
              fileChanges.changed = ContentModified
        /\ fileChanges.by = "CacheManager" =>
              fileChanges.changed = ContentModified \cap MtimeDiffers

\* C3 witness: CacheManager ran on F1 unchanged, F2 modified, F3 new, F4 removed.
C3_Witness ==
    /\ Detected /\ SnapshotValid
    /\ fileChanges.by = "CacheManager"
    /\ Current = {"f1.pdf", "f2.pdf", "f3.pdf"}
    /\ Recorded = {"f1.pdf", "f2.pdf", "f4.pdf"}
    /\ metaFile.data["f1.pdf"] = FileRecord(corpus["f1.pdf"])
    /\ fileChanges.changed = {"f2.pdf"}
    /\ fileChanges.added = {"f3.pdf"}
    /\ fileChanges.removed = {"f4.pdf"}

\* C5: no cache load raises on a missing, zero-length or unparseable file:
\* load_embeddings_cache and load_file_metadata return a result (an empty map
\* for a missing metadata file), and get_file_changes on an unreadable cache
\* returns a result marked invalid, which a valid cache without changes never
\* gets.
C5_LoadNeverRaises ==
    /\ loadResult.op # "none" => loadResult.raised = Absent
    /\ (loadResult.op = "load_file_metadata" /\ metaFile.st = "absent") =>
          loadResult.value = <<>>
    /\ (Detected /\ ~SnapshotValid) => fileChanges.is_valid = Present(FALSE)

\* C20: change detection reports a path that is present now and in the
\* snapshot as changed if and only if its modified time differs from the
\* recorded one and its content hash differs from the recorded one; a file
\* that was touched but holds the recorded content is not reported.
C20_ChangedIffMtimeAndHash ==
    (Detected /\ SnapshotValid) =>
        \A f \in Current \cap Recorded :
            f \in fileChanges.changed <=>
                /\ corpus[f].mtime # metaFile.data[f].fileModifiedTime
                /\ get_file_hash(corpus[f].content) # metaFile.data[f].fileHash

\* the step is a run of update_file_metadata that returned
MetadataUpdated == detectPc' = "updated" /\ loadResult'.raised = Absent

\* the step is a full or incremental ingestion of DocumentRAGSystem that returned
Ingested ==
    /\ initResult'.branch \in {"full", "incremental", "incremental_fallback_full"}
    /\ initResult'.raised = Absent

\* after the step the metadata map records exactly the files of dataDir, and
\* the files that were added or changed before it with their current record
MetadataCurrent ==
    /\ metaFile'.st = "ok"
    /\ DOMAIN metaFile'.data = DOMAIN corpus'
    /\ \A f \in AddedOrChanged \cap DOMAIN metaFile'.data :
          metaFile'.data[f] = FileRecord(corpus'[f])

\* C19: after a successful ingestion run, by DocumentRAGSystem or through
\* CacheManager.update_file_metadata on a valid snapshot, the metadata map has
\* one record per file of the corpus and none for a removed file, the records
\* of added and changed files are current, and the change detection of the
\* same component finds nothing on the untouched corpus.
C19_MetadataCurrent ==
    [][ /\ (MetadataUpdated /\ SnapshotValid) =>
              /\ MetadataCurrent
              /\ CacheManager_get_file_changes(metaFile', embFile', corpus') = NoChanges
        /\ Ingested =>
              /\ MetadataCurrent
              /\ System_get_file_changes(metaFile', embFile', corpus')
                    = [Invalid EXCEPT !.is_valid = TRUE] ]_vars

SpecDetect == InitDetect /\ [][NextDetect]_vars

(***************************************************************************)
(* SpecIndex: add calls on one VectorDB, of either source file.            *)
(***************************************************************************)
MaxIndexRows == 3       \* rows a VectorDB holds at most
MaxBatch == 2           \* longest list passed to one add call

SampleVectors == {Embedding(SampleTexts[1]), Embedding(SampleTexts[3])}
ShortVector == [of |-> SampleTexts[1], dim |-> Dim - 1]    \* a vector of another dimension
EmptyVector == [of |-> <<>>, dim |-> 0]                    \* the empty list []
AddTexts == {SampleTexts[1]}
AddMetadata == {SampleMetadata(1)}

\* db.add(vector, text) / db.add(vector, text, metadata) / db.add([], ...)
SingleCalls ==
    [vectors : {Vector(v) : v \in SampleVectors \cup {ShortVector, EmptyVector}},
     texts : {NoneArg, One(<<>>)} \cup {One(t) : t \in AddTexts},
     metadata : {NoneArg} \cup {One(m) : m \in AddMetadata}]

\* db.add(vectors, texts) / db.add(vectors, texts, metadata) with lists
BatchCalls ==
    [vectors : {Batch(rows) : rows \in SeqsUpTo(SampleVectors, MaxBatch) \ {<<>>}}
                  \cup {Batch(<<ShortVector>>), Tensor},
     texts : {NoneArg} \cup {List(ts) : ts \in SeqsUpTo(AddTexts, MaxBatch)},
     metadata : {NoneArg} \cup {List(ms) : ms \in SeqsUpTo(AddMetadata, MaxBatch)}]

InitIndex ==
    /\ SystemIdle
    /\ QueryIdle
    /\ DiskIdle
    /\ DetectIdle
    /\ CacheIdle
    /\ LexIdle
    /\ RerankIdle
    /\ StepIdle
    /\ IndexIdle
    /\ variant \in {"pipeline", "modules"}
    /\ bm25Candidates = <<>>
    /\ vectorCandidates = <<>>
    /\ mergedCandidates = <<>>
    /\ mergePc = "idle"

WithinIndexBound(d) ==
    /\ Len(d.vectors) <= MaxIndexRows
    /\ Len(d.texts) <= MaxIndexRows
    /\ Len(d.metadata) <= MaxIndexRows

AddDone(r, rows) ==
    /\ WithinIndexBound(r.db)
    /\ db' = r.db
    /\ addResult' = [op |-> "add", raised |-> r.raised, rows |-> rows,
                     before |-> Len(db.vectors)]

\* db.add(...) on the VectorDB of core/retrieval/vectordb.py
Add ==
    /\ variant = "pipeline"
    /\ \E call \in SingleCalls \cup BatchCalls :
          AddDone(VectorDB_add(db, call.vectors, call.texts, call.metadata),
                  Len(call.vectors.rows))
    /\ UNCHANGED <<mergeVars, queryVars, diskVars, detectVars, cacheVars, systemVars,
                   toolVars>>

\* db.add(...) on the VectorDB of modules/vectordb.py
AddModules ==
    /\ variant = "modules"
    /\ \E call \in SingleCalls :
          AddDone(VectorDB_modules_add(db, call.vectors.rows[1], call.texts,
                                       call.metadata), 1)
    /\ UNCHANGED <<mergeVars, queryVars, diskVars, detectVars, cacheVars, systemVars,
                   toolVars>>

NextIndex == Add \/ AddModules

(***************************************************************************)
(* Claims on VectorDB.                                                     *)
(***************************************************************************)
\* C11: in every reachable state of a VectorDB, whatever add calls were made
\* (one vector or a batch, with or without metadata, lists of any length, calls
\* that fail part-way), the index holds as many vectors as there are texts and
\* metadata entries, and an add of M rows that returns grew the index by M.
C11_IndexLockstep ==
    /\ Len(db.vectors) = Len(db.texts)
    /\ Len(db.texts) = Len(db.metadata)
    /\ (addResult.op = "add" /\ addResult.raised = Absent) =>
          Len(db.vectors) = addResult.before + addResult.rows

SpecIndex == InitIndex /\ [][NextIndex]_vars

(***************************************************************************)
(* SpecLexical: a BM25Index is built over texts drawn from the sample      *)
(* documents and searched once.                                            *)
(***************************************************************************)
MaxDocs == 3        \* longest corpus
MaxTopK == 3        \* largest bm25TopK

LexDocs ==
    { <<"a", "b", "c">>,                                \* abc
      <<"A", "B", "C", " ", "a", "b", "c">>,            \* ABC abc
      <<"t", "h", "e", " ", "c", "a", "b">>,            \* the cab
      <<"a", "b">> }                                    \* ab
LexQueries ==
    { <<"a", "b", "c">>,                                \* abc
      <<"T", "h", "e", " ", "c", "a", "b", "-", "a", "b", "c">>,   \* The cab-abc
      <<"t", "h", "e", " ", "a", "b">> }                \* the ab: no token is kept

InitLexical ==
    /\ SystemIdle
    /\ QueryIdle
    /\ DiskIdle
    /\ DetectIdle
    /\ CacheIdle
    /\ IndexIdle
    /\ RerankIdle
    /\ StepIdle
    /\ variant \in {"pipeline", "modules"}
    /\ bm25Candidates = <<>>
    /\ vectorCandidates = <<>>
    /\ mergedCandidates = <<>>
    /\ mergePc = "idle"
    /\ lexTexts \in SeqsUpTo(LexDocs, MaxDocs)
    /\ lexQuery \in LexQueries
    /\ lexTopK \in 0..MaxTopK
    /\ lexIndex = [texts |-> <<>>, tokenizedTexts |-> <<>>]
    /\ lexResults = <<>>
    /\ lexPc = "input"

\* BM25Index(texts): BM25Okapi may reject a corpus without documents
BuildLexical ==
    /\ lexPc = "input"
    /\ \E bm25Builds \in BOOLEAN :
          IF lexTexts = <<>> /\ ~bm25Builds
          THEN lexPc' = "failed" /\ UNCHANGED lexIndex
          ELSE /\ lexPc' = "built"
               /\ lexIndex' = [texts |-> lexTexts,
                               tokenizedTexts |-> BM25Index_tokenize(lexTexts)]
    /\ UNCHANGED <<lexTexts, lexQuery, lexTopK, lexResults>>
    /\ UNCHANGED <<mergeVars, queryVars, diskVars, detectVars, cacheVars, systemVars,
                   indexVars, rerankVars, stepVars>>

\* bm25Index.search(query)
SearchLexical ==
    /\ lexPc = "built"
    /\ lexResults' = IF variant = "pipeline"
                     THEN BM25Index_search(lexIndex, lexQuery, lexTopK)
                     ELSE BM25Index_modules_search(lexIndex, lexQuery, lexTopK)
    /\ lexPc' = "done"
    /\ UNCHANGED <<lexTexts, lexQuery, lexTopK, lexIndex>>
    /\ UNCHANGED <<mergeVars, queryVars, diskVars, detectVars, cacheVars, systemVars,
                   indexVars, rerankVars, stepVars>>

\* bm25Candidates.append({...}) for one (idx, score, text) triple of the search
LexCandidate(result) ==
    [text |-> result.text, metadata |-> SampleMetadata(result.idx + 1),
     bm25_score |-> Present(result.score), distance |-> Absent,
     vector_distance |-> Absent, source |-> "bm25"]

\* one db.search result over the same texts, after candidate["source"] = "vector"
VecCandidate(row, pos) ==
    [text |-> lexTexts[row], metadata |-> SampleMetadata(row),
     bm25_score |-> Absent, distance |-> Present(Distance(row, pos)),
     vector_distance |-> Absent, source |-> "vector"]

\* the part of ask after the lexical search: the candidates of both searches
\* and their merge; the vector search returns up to MaxVec rows of the corpus
MergeSearched ==
    /\ lexPc = "done"
    /\ mergePc = "idle"
    /\ bm25Candidates' = [k \in DOMAIN lexResults |-> LexCandidate(lexResults[k])]
    /\ \E rows \in SeqsUpTo(DOMAIN lexTexts, MaxVec) :
          vectorCandidates' = [i \in DOMAIN rows |-> VecCandidate(rows[i], i)]
    /\ mergedCandidates' = MergeCandidates(variant, bm25Candidates', vectorCandidates')
    /\ mergePc' = "merged"
    /\ UNCHANGED <<variant, lexVars>>
    /\ UNCHANGED <<queryVars, diskVars, detectVars, cacheVars, systemVars, indexVars,
                   rerankVars, stepVars>>

NextLexical == BuildLexical \/ SearchLexical \/ MergeSearched

(***************************************************************************)
(* Claims on BM25Index.search.                                             *)
(***************************************************************************)
\* C13: a search over N documents with top-K setting K returns K results when
\* N >= K and N results when N < K (none for an empty corpus), and the results
\* name distinct document indexes in 0..N-1.
C13_TopKCount ==
    lexPc = "done" =>
        LET N == Len(lexTexts) IN
        /\ Len(lexResults) = IF N >= lexTopK THEN lexTopK ELSE N
        /\ \A k \in DOMAIN lexResults : lexResults[k].idx \in 0..(N - 1)
        /\ \A k, l \in DOMAIN lexResults :
              lexResults[k].idx = lexResults[l].idx => k = l

\* C13 witness: three documents searched with K = 2 gave two results.
C13_Witness ==
    /\ lexPc = "done"
    /\ Len(lexTexts) = 3
    /\ lexTopK = 2
    /\ Len(lexResults) = 2
    /\ lexResults[1].idx # lexResults[2].idx

\* the score of document i (counted from 0) for the query tokenized as the corpus is
TrueScore(i) == DocScore(TokenizeText(lexTexts[i + 1]), TokenizeText(lexQuery))

ReturnedIdx == {lexResults[k].idx : k \in DOMAIN lexResults}
NotReturnedIdx == (0..(Len(lexTexts) - 1)) \ ReturnedIdx

\* C14: search returns the top-K documents: each result carries the score of its
\* document for the query tokenized by the rule of the corpus, no document that
\* is left out scores higher than a returned one, and among documents of equal
\* score the insertion index alone decides which are returned.
C14_TopKByScore ==
    lexPc = "done" =>
        /\ \A k \in DOMAIN lexResults : lexResults[k].score = TrueScore(lexResults[k].idx)
        /\ \A i \in ReturnedIdx, j \in NotReturnedIdx : TrueScore(i) >= TrueScore(j)
        /\ \/ \A i \in ReturnedIdx, j \in NotReturnedIdx :
                 TrueScore(i) = TrueScore(j) => i < j
           \/ \A i \in ReturnedIdx, j \in NotReturnedIdx :
                 TrueScore(i) = TrueScore(j) => i > j

\* the merged candidates that the lexical search found
LexicalPart == {i \in DOMAIN mergedCandidates : mergedCandidates[i].bm25_score # Absent}

\* the first position of a text with the key of candidate i in the vector results
FirstVectorPos(i) ==
    CHOOSE p \in DOMAIN vectorCandidates :
        /\ textKey(vectorCandidates[p].text) = textKey(mergedCandidates[i].text)
        /\ \A q \in 1..(p - 1) :
              textKey(vectorCandidates[q].text) # textKey(mergedCandidates[i].text)

\* C21: the merged list holds the lexical candidates first, by descending
\* lexical score, and after them the candidates only the vector search found,
\* in the order of the vector results.
C21_LexicalFirstRanked ==
    mergePc = "merged" =>
        /\ \A i \in LexicalPart, j \in DOMAIN mergedCandidates \ LexicalPart : i < j
        /\ \A i, j \in LexicalPart :
              i < j => mergedCandidates[i].bm25_score[1] >= mergedCandidates[j].bm25_score[1]
        /\ \A i, j \in DOMAIN mergedCandidates \ LexicalPart :
              i < j => FirstVectorPos(i) < FirstVectorPos(j)

\* C22: a query of which _tokenize keeps no token (stopwords and words of
\* fewer than three characters only) gets an empty result from search.
C22_NoTokenNoResult ==
    (lexPc = "done" /\ TokenizeText(lexQuery) = <<>>) => lexResults = <<>>

SpecLexical == InitLexical /\ [][NextLexical]_vars

(***************************************************************************)
(* SpecRerank: one call of rerank_candidates on candidates drawn from the  *)
(* sample rows, with scores the model may give.                            *)
(***************************************************************************)
MaxCandidates == 3      \* longest candidate list
MaxScore == 2           \* rerank scores are 1..MaxScore

RerankSamples == {Bm25Candidate(1), Bm25Candidate(3), VectorCandidate(3, 1)}

InitRerank ==
    /\ SystemIdle
    /\ QueryIdle
    /\ DiskIdle
    /\ DetectIdle
    /\ CacheIdle
    /\ IndexIdle
    /\ LexIdle
    /\ StepIdle
    /\ MergeIdle
    /\ rerankCandidates \in SeqsUpTo(RerankSamples, MaxCandidates)
    /\ rerankTopK \in 0..MaxCandidates
    /\ rerankResult = [scores |-> <<>>, calls |-> 0, raised |-> Absent, value |-> <<>>]
    /\ rerankPc = "input"
    /\ contextTopK = 0
    /\ lastMessages = Absent

\* rerank_candidates(query, candidates)
Rerank ==
    /\ rerankPc = "input"
    /\ \E scores \in [DOMAIN rerankCandidates -> 1..MaxScore] :
          rerankResult' = rerank_candidates(rerankCandidates, scores, rerankTopK)
    /\ rerankPc' = "done"
    /\ UNCHANGED <<rerankCandidates, rerankTopK, contextTopK, lastMessages>>
    /\ UNCHANGED <<mergeVars, queryVars, diskVars, detectVars, cacheVars, systemVars,
                   indexVars, lexVars, stepVars>>

NextRerank == Rerank

(***************************************************************************)
(* Claims on rerank_candidates.                                            *)
(***************************************************************************)
\* C15: rerank returns min(topN, number of candidates) entries; each is a
\* candidate of the input with the score the model gave to it; the entries are
\* the highest-scored candidates in descending order of score, candidates of
\* equal score in their input order; an empty candidate list gives an empty
\* list, without an exception and without a call of the scoring model.
C15_RerankOrder ==
    rerankPc = "done" =>
        LET n == Len(rerankCandidates)
            m == IF rerankTopK <= n THEN rerankTopK ELSE n
            out == rerankResult.value
            score == rerankResult.scores
        IN /\ rerankResult.raised = Absent
           /\ Len(out) = m
           /\ n = 0 => (out = <<>> /\ rerankResult.calls = 0)
           /\ n > 0 =>
                \E pos \in [1..m -> 1..n] :
                   /\ \A k \in 1..m :
                         /\ \A f \in DOMAIN rerankCandidates[pos[k]] :
                               out[k][f] = rerankCandidates[pos[k]][f]
                         /\ out[k]["rerank_score"] = score[pos[k]]
                   /\ \A k, l \in 1..m :
                         k < l => \/ score[pos[k]] > score[pos[l]]
                                  \/ score[pos[k]] = score[pos[l]] /\ pos[k] < pos[l]
                   /\ \A k \in 1..m, j \in (1..n) \ {pos[l] : l \in 1..m} :
                         \/ score[pos[k]] > score[j]
                         \/ score[pos[k]] = score[j] /\ pos[k] < j

\* C15 witness: three candidates, the first two different and of equal score,
\* the third of a higher score, reranked with topN = 2: the third comes first,
\* then the first.
C15_Witness ==
    /\ rerankPc = "done"
    /\ Len(rerankCandidates) = 3
    /\ rerankTopK = 2
    /\ rerankResult.scores = <<1, 1, 2>>
    /\ rerankCandidates[1] # rerankCandidates[2]
    /\ Len(rerankResult.value) = 2
    /\ rerankResult.value[1]["text"] = rerankCandidates[3].text
    /\ rerankResult.value[2]["source"] = rerankCandidates[1].source
    /\ rerankResult.value[2]["rerank_score"] = 1

SpecRerank == InitRerank /\ [][NextRerank]_vars

(***************************************************************************)
(* SpecSession: one DocumentRAGSystem object: initialize() runs once, at   *)
(* startup, on a cache directory that is empty or was left by an earlier   *)
(* successful run; query() is called at any time, before or after it.      *)
(***************************************************************************)
MaxQueryLen == 2    \* longest query string

\* query strings: empty, blank, plain, and with blanks around the text
SessionQueries == SeqsUpTo({" ", "q"}, MaxQueryLen)

SessionFiles == {[content |-> c, mtime |-> 1] : c \in Contents} \cup {EmptyPdf}
SessionCorpora == PartialMaps(IngestPaths, SessionFiles)

\* the two artifacts a successful full ingestion of prior leaves
CacheOf(prior) ==
    data_pipeline(AbsentFile, AbsentFile, prior, "none", TRUE, "none", EmptyFile)

ErrNotInitialized == <<"ValueError", "System not initialized. Call initialize() first.">>
ErrEmptyQuery == <<"ValueError", "Query cannot be empty">>

\* mutant: only the empty string is refused, a blank one reaches the pipeline
System_query_NoStrip(rag, p, d, history, query, fault, response) ==
    IF rag = "None"
    THEN Raise(ErrNotInitialized, NoCalls, history)
    ELSE IF query = <<>>
    THEN Raise(ErrEmptyQuery, NoCalls, history)
    ELSE ask_db("modules", p, d, history, Strip(query), fault, response, <<>>, <<>>)

\* DocumentRAGSystem.query
System_query(rag, p, d, history, query, fault, response) ==
    IF rag = "None"                                 \* not self.ragPipeline
    THEN Raise(ErrNotInitialized, NoCalls, history)
    ELSE IF query = <<>> \/ Strip(query) = <<>>     \* not query or not query.strip()
    THEN Raise(ErrEmptyQuery, NoCalls, history)
    ELSE ask_db("modules", p, d, history, Strip(query), fault, response, <<>>, <<>>)

InitSession ==
    /\ MergeIdle
    /\ QueryIdle
    /\ DetectIdle
    /\ CacheIdle
    /\ SystemIdle
    /\ IndexIdle
    /\ LexIdle
    /\ RerankIdle
    /\ StepIdle
    /\ corpus \in SessionCorpora
    /\ \/ metaFile = AbsentFile /\ embFile = AbsentFile
       \/ \E prior \in SessionCorpora :
             /\ metaFile = CacheOf(prior).meta
             /\ embFile = CacheOf(prior).emb

\* system.initialize(), once
SessionInitialize ==
    /\ initResult.branch = "none"
    /\ Initialize

\* system.query(query)
SystemQuery ==
    /\ \E query \in SessionQueries, fault \in Faults, response \in Responses :
       \E r \in {System_query(ragPipeline, pipe, db, conversationHistory, query, fault,
                               response)} :
             /\ lastQuery' = Present(query)
             /\ conversationHistory' = r.history
             /\ lastAsk' = [kind |-> r.kind, error |-> r.error, calls |-> r.calls,
                            fault |-> fault]
             /\ askLog' = IF r.kind = "answer"
                          THEN Append(askLog, Turn(Strip(query), response))
                          ELSE askLog
    /\ UNCHANGED <<pipe, db, initResult, ragPipeline>>
    /\ UNCHANGED <<mergeVars, diskVars, detectVars, cacheVars, addResult, toolVars>>

NextSession == SessionInitialize \/ SystemQuery

(***************************************************************************)
(* Claims on DocumentRAGSystem.query.                                      *)
(***************************************************************************)
\* the step is a call of query
QueryRan ==
    /\ lastQuery' # Absent
    /\ initResult' = initResult
    /\ <<lastQuery, lastAsk>>' # <<lastQuery, lastAsk>>

\* the step called no provider and no pipeline operation and left the history
NothingDone ==
    /\ lastAsk'.calls = NoCalls
    /\ conversationHistory' = conversationHistory
    /\ askLog' = askLog
    /\ pipe' = pipe
    /\ db' = db

\* the query string is empty or holds blanks only
Blank(query) == \A i \in DOMAIN query : query[i] = " "

\* C18: query raises the 'not initialized' ValueError while no initialize has
\* produced a pipeline (none ran, or the one that ran failed), and a ValueError
\* for an empty or blank query on an initialized system; in both cases no
\* provider is called, the pipeline is not used and the history is unchanged.
C18_QueryGuards ==
    [][ QueryRan =>
            /\ ragPipeline = "None" =>
                  /\ lastAsk'.kind = "raise"
                  /\ lastAsk'.error = ErrNotInitialized
                  /\ NothingDone
            /\ (ragPipeline # "None" /\ Blank(lastQuery'[1])) =>
                  /\ lastAsk'.kind = "raise"
                  /\ lastAsk'.error[1] = "ValueError"
                  /\ NothingDone ]_vars

\* C18 witness: a blank query on a system whose pipeline holds chunks was
\* refused without a provider call.
C18_Witness ==
    /\ ragPipeline = "RAGPipeline"
    /\ pipe.chunks # <<>>
    /\ lastQuery = Present(<<" ", " ">>)
    /\ lastAsk.error = ErrEmptyQuery
    /\ lastAsk.calls = NoCalls

SpecSession == InitSession /\ [][NextSession]_vars

(***************************************************************************)
(* SpecContext: ask of pipeline/rag.py with the reranked results and the   *)
(* messages it hands to the chat client, over a pipeline of three chunks.  *)
(***************************************************************************)
MaxContextAsks == 3     \* answered queries per behaviour
MaxContextTopK == 2     \* largest reranker.topK and contextTopK

ContextRows == <<1, 2, 3>>   \* rows 1 and 2 share a key, row 3 has its own

\* what the two searches of a query return: the rows of the lexical and of the
\* vector result list
ContextSearches ==
    { [lex |-> <<1, 3>>, vec |-> <<2, 3>>],     \* two keys, both found twice
      [lex |-> <<3, 1>>, vec |-> <<1, 1>>],     \* two keys, one found by both
      [lex |-> <<1, 2>>, vec |-> <<1, 2>>],     \* one key
      [lex |-> <<1, 2>>, vec |-> <<3, 3>>] }    \* one lexical key, one vector-only

systemPrompt == "You are a helpful assistant."

\* f"Page {page} - {filename}: {text}" for one result
ContextPart(result) ==
    <<"Page ", result["metadata"].page, " - ", result["metadata"].filename, ": ",
      result["text"]>>

\* "\n".join(contextParts): the lines, one per result
JoinedContext(results) == [k \in DOMAIN results |-> ContextPart(results[k])]

\* both messages of every stored turn, in the order of the list
RECURSIVE TurnMessages(_)
TurnMessages(history) ==
    IF history = <<>> THEN <<>>
    ELSE <<Head(history).user, Head(history).assistant>> \o TurnMessages(Tail(history))

\* the list reversed
RECURSIVE Reversed(_)
Reversed(list) == IF list = <<>> THEN <<>> ELSE Append(Reversed(Tail(list)), Head(list))

\* mutant: the stored turns are added newest first
build_conversation_context_NewestFirst(history, documentContext) ==
    << [role |-> "system", content |-> systemPrompt],
       [role |-> "user", content |-> <<"Document Context: ", documentContext>>] >>
    \o TurnMessages(Reversed(history))

\* RAGPipeline.build_conversation_context
build_conversation_context(history, documentContext) ==
    << [role |-> "system", content |-> systemPrompt],
       [role |-> "user", content |-> <<"Document Context: ", documentContext>>] >>
    \o TurnMessages(history)

\* the scores the rerank model gives to a candidate
ContextScores == {1, 2}

\* the merged candidates of a query (ask, lines 96-140)
ContextMerged(p, lexRows, vecRows) ==
    LET bm25 == [i \in DOMAIN lexRows |->
                    [Bm25Candidate(lexRows[i]) EXCEPT
                        !.metadata = p.chunks[lexRows[i]].metadata]]
        vector == [i \in DOMAIN vecRows |-> VectorCandidate(vecRows[i], i)]
    IN MergeCandidates("pipeline", bm25, vector)

\* RAGPipeline.ask of pipeline/rag.py from the rerank on: the reranked
\* results and the messages built from them
ask_messages(history, query, mergedList, scores, topK) ==
    LET reranked == rerank_candidates(mergedList, scores, topK)
        context == JoinedContext(reranked.value)
    IN [merged |-> mergedList, reranked |-> reranked,
        messages |-> Append(build_conversation_context(history, context),
                            [role |-> "user", content |-> query])]

InitContext ==
    /\ SystemIdle
    /\ IndexIdle
    /\ LexIdle
    /\ StepIdle
    /\ MergeIdle
    /\ DiskIdle
    /\ DetectIdle
    /\ CacheIdle
    /\ pipe = PipeOf(ContextRows)
    /\ conversationHistory = <<>>
    /\ lastAsk = [kind |-> "none", error |-> Absent, calls |-> NoCalls,
                  fault |-> "none"]
    /\ askLog = <<>>
    /\ rerankCandidates = <<>>
    /\ rerankTopK \in 0..MaxContextTopK
    /\ contextTopK \in 0..MaxContextTopK
    /\ rerankResult = [scores |-> <<>>, calls |-> 0, raised |-> Absent, value |-> <<>>]
    /\ rerankPc = "idle"
    /\ lastMessages = Absent

\* one call of pipeline.ask(query)
AskContext ==
    /\ Len(askLog) < MaxContextAsks
    /\ \E query \in Queries, fault \in Faults, response \in Responses :
       \E found \in ContextSearches :
       \E mergedList \in {ContextMerged(pipe, found.lex, found.vec)} :
       \E scores \in [DOMAIN mergedList -> ContextScores] :
       \E r \in {ask("pipeline", pipe, conversationHistory, query, fault, response,
                      found.lex, found.vec)},
          m \in {ask_messages(conversationHistory, query, mergedList, scores,
                              rerankTopK)} :
             /\ lastQuery' = Present(query)
             /\ conversationHistory' = r.history
             /\ lastAsk' = [kind |-> r.kind, error |-> r.error, calls |-> r.calls,
                            fault |-> fault]
             /\ askLog' = IF r.kind = "answer"
                          THEN Append(askLog, Turn(query, response))
                          ELSE askLog
             /\ rerankCandidates' = IF r.calls.embed = 1 /\ fault # "embed"
                                    THEN m.merged ELSE <<>>
             /\ rerankResult' = IF r.calls.rerank = 1 /\ fault # "rerank"
                                 THEN m.reranked
                                 ELSE [scores |-> <<>>, calls |-> r.calls.rerank,
                                       raised |-> Absent, value |-> <<>>]
             /\ lastMessages' = IF r.calls.llm = 1 THEN Present(m.messages) ELSE Absent
    /\ UNCHANGED <<pipe, rerankTopK, contextTopK, rerankPc, initResult, ragPipeline>>
    /\ UNCHANGED <<mergeVars, diskVars, detectVars, cacheVars, indexVars, lexVars, stepVars>>

NextContext == AskContext

(***************************************************************************)
(* Claims on the context of a query.                                       *)
(***************************************************************************)
\* the chunks rendered into the document-context message of the last ask
RenderedChunks == lastMessages[1][2].content[2]

\* C23: the document-context message of a query holds
\* min(contextTopK, number of merged candidates) chunks.
C23_ContextTrimmed ==
    lastMessages # Absent =>
        Len(RenderedChunks) = Min(contextTopK, Len(rerankCandidates))

\* the step is a call of ask that reached the chat client
ChatCalled ==
    /\ lastMessages' # Absent
    /\ askLog' # askLog \/ lastAsk'.kind = "raise"

\* the turns of the answered queries before this step that the bound keeps
EarlierTurns ==
    IF Len(askLog) <= maxHistory THEN askLog
    ELSE SubSeq(askLog, Len(askLog) - maxHistory + 1, Len(askLog))

\* C24: the messages handed to the chat client are the system instruction, the
\* document-context message of the ranked chunks, the user and the assistant
\* message of every stored turn, oldest turn first, and the current query last;
\* the stored turns are those of the earlier answered queries.
C24_MessageOrder ==
    [][ ChatCalled =>
          LET m == lastMessages'[1]
              h == EarlierTurns
          IN /\ Len(m) = 2 * Len(h) + 3
             /\ m[1] = [role |-> "system", content |-> systemPrompt]
             /\ m[2].role = "user"
             /\ m[2].content[2] = JoinedContext(rerankResult'.value)
             /\ \A k \in DOMAIN h :
                   /\ m[2 * k + 1] = h[k].user
                   /\ m[2 * k + 2] = h[k].assistant
             /\ m[Len(m)] = [role |-> "user", content |-> lastQuery'[1]] ]_vars

\* C24 witness: the chat client got seven messages: two stored turns of
\* different queries come between the document context and the current query.
C24_Witness ==
    /\ lastMessages # Absent
    /\ Len(lastMessages[1]) = 7
    /\ lastMessages[1][3].content = "q1"
    /\ lastMessages[1][5].content = "q2"
    /\ lastMessages[1][7].content = "q1"
    /\ lastAsk.kind = "raise"
    /\ Len(askLog) = 2

SpecContext == InitContext /\ [][NextContext]_vars

(***************************************************************************)
(* SpecSwap: initialize() and query() of one DocumentRAGSystem followed    *)
(* statement by statement, as two threads of a host program run them.  A   *)
(* RAGPipeline object has an identity; its constructor assigns the         *)
(* attributes one after the other, and self.ragPipeline is a reference.    *)
(***************************************************************************)
MaxObjects == 2         \* initialize() is called while fewer objects were allocated
MaxSwapTurns == 1       \* query() is called while the pipeline holds fewer turns

\* an object right after cls.__new__: no attribute is assigned yet
NewObject ==
    [chunks |-> Absent, texts |-> Absent, embeddings |-> Absent, db |-> Absent,
     bm25Index |-> Absent, turns |-> 0]

TextsOf(chunks) == [i \in DOMAIN chunks |-> chunks[i].text]

\* mutant: the run rebuilds the object self.ragPipeline refers to
Allocate_InPlace(objs, current) == IF current = 0 THEN Len(objs) + 1 ELSE current

\* RAGPipeline(...) and cls.__new__(cls) make a new object
Allocate(objs, current) == Len(objs) + 1

WithObject(objs, id, o) ==
    IF id > Len(objs) THEN Append(objs, o) ELSE [objs EXCEPT ![id] = o]

\* updated_chunks of incremental_update: the kept chunks, then the reloaded ones
updated_chunks(emb, current, changes) ==
    LET files_to_update == changes.changed_files \cup changes.new_files
    IN KeepChunks(emb.data.chunks, files_to_update \cup changes.removed_files)
          \o LoadFrom(current, files_to_update, 1)

\* file_metadata.json as data_pipeline writes it
FullMetadata(current) ==
    data_pipeline(AbsentFile, AbsentFile, current, "none", TRUE, "between_writes",
                  EmptyFile).meta

SwapFrame ==
    UNCHANGED <<mergeVars, queryVars, detectVars, cacheVars, initResult, lastQuery,
                indexVars, lexVars, rerankVars, searchCall, chunkRun>>

\* the constructor is entered with the chunks (and, from cache, the embeddings)
StartConstruction(branch, chunks, loaded) ==
    LET id == Allocate(objects, generation)
    IN /\ objects' = WithObject(objects, id, NewObject)
       /\ ingestRun' = [pc |-> "new", branch |-> branch, chunks |-> chunks,
                        loaded |-> loaded, target |-> id, row |-> 0]

\* an exception leaves the constructor: incremental_update catches it and falls
\* back to data_pipeline, otherwise it leaves initialize()
RunFails ==
    ingestRun' = IF ingestRun.branch = "incremental"
                 THEN [ingestRun EXCEPT !.pc = "fallback"]
                 ELSE NoRun

InitSwap ==
    /\ MergeIdle
    /\ QueryIdle
    /\ DetectIdle
    /\ CacheIdle
    /\ SystemIdle
    /\ IndexIdle
    /\ LexIdle
    /\ RerankIdle
    /\ StepIdle
    /\ corpus \in SessionCorpora
    /\ metaFile = AbsentFile
    /\ embFile = AbsentFile

\* initialize() up to the call of the constructor
BeginRun ==
    /\ ingestRun.pc = "idle"
    /\ Len(objects) < MaxObjects
    /\ \E changes \in {System_get_file_changes(metaFile, embFile, corpus)} :
       \E fault \in {"none", "import", "batch"} :
          CASE InitBranch(changes) = "from_cache" ->
                  /\ IF embFile.st # "ok"              \* json.load(f)
                     THEN RunFails /\ UNCHANGED objects
                     ELSE StartConstruction("from_cache", embFile.data.chunks,
                                            embFile.data.embeddings)
                  /\ UNCHANGED metaFile
            [] InitBranch(changes) = "incremental" ->
                  \E r \in {incremental_update_try(metaFile, embFile, corpus, changes,
                                                    fault, TRUE, "between_writes",
                                                    EmptyFile)} :
                     IF r.raised = Present("Exception")
                     THEN /\ ingestRun' = [ingestRun EXCEPT !.pc = "fallback"]
                          /\ UNCHANGED <<objects, metaFile>>
                     ELSE /\ metaFile' = r.meta
                          /\ StartConstruction("incremental",
                                               updated_chunks(embFile, corpus, changes),
                                               <<>>)
            [] InitBranch(changes) = "full" ->
                  /\ metaFile' = FullMetadata(corpus)
                  /\ StartConstruction("full", LoadFrom(corpus, DOMAIN corpus, 1), <<>>)
    /\ UNCHANGED <<corpus, embFile, generation, ragPipeline, queryRun>>
    /\ SwapFrame

\* except Exception: return self.data_pipeline(), up to the constructor call
Fallback ==
    /\ ingestRun.pc = "fallback"
    /\ metaFile' = FullMetadata(corpus)
    /\ StartConstruction("full", LoadFrom(corpus, DOMAIN corpus, 1), <<>>)
    /\ UNCHANGED <<corpus, embFile, generation, ragPipeline, queryRun>>
    /\ SwapFrame

\* self.db = VectorDB(...); self.texts = ...; self.chunks = chunks
AssignFields ==
    /\ ingestRun.pc = "new"
    /\ objects' = [objects EXCEPT ![ingestRun.target] =
                      [@ EXCEPT !.db = Present(EmptyDb),
                                !.texts = Present(TextsOf(ingestRun.chunks)),
                                !.chunks = Present(ingestRun.chunks),
                                !.embeddings = IF ingestRun.branch = "from_cache"
                                               THEN Present(ingestRun.loaded)
                                               ELSE @]]
    /\ ingestRun' = [ingestRun EXCEPT !.pc = "fields"]
    /\ UNCHANGED <<diskVars, generation, ragPipeline, queryRun>>
    /\ SwapFrame

\* self.bm25Index = BM25Index(self.texts)
BuildBm25 ==
    /\ ingestRun.pc = "fields"
    /\ \E bm25Builds \in BOOLEAN :
          LET texts == TextsOf(ingestRun.chunks)
          IN IF texts = <<>> /\ ~bm25Builds
             THEN RunFails /\ UNCHANGED objects
             ELSE /\ objects' = [objects EXCEPT ![ingestRun.target].bm25Index =
                                    Present([texts |-> texts,
                                             tokenizedTexts |-> BM25Index_tokenize(texts)])]
                  /\ ingestRun' = [ingestRun EXCEPT !.pc = "bm25"]
    /\ UNCHANGED <<diskVars, generation, ragPipeline, queryRun>>
    /\ SwapFrame

\* __init__: self.embeddings = self._embedder_batch(self.texts), or [] for no
\* text; from_cache: obj.categoryEmbeddings = obj.create_category_embeddings()
EmbedTexts ==
    /\ ingestRun.pc = "bm25"
    /\ \E fault \in {"none", "batch", "single"} :
          IF ingestRun.branch = "from_cache"
          THEN /\ IF fault = "single" THEN RunFails
                  ELSE ingestRun' = [ingestRun EXCEPT !.pc = "rows"]
               /\ UNCHANGED objects
          ELSE IF ingestRun.chunks = <<>>
          THEN /\ objects' = [objects EXCEPT ![ingestRun.target].embeddings = Present(<<>>),
                                             ![ingestRun.target].chunks = Present(<<>>)]
               /\ ingestRun' = [ingestRun EXCEPT !.pc = "rows"]
          ELSE IF fault = "batch"
          THEN RunFails /\ UNCHANGED objects
          ELSE /\ objects' = [objects EXCEPT ![ingestRun.target].embeddings =
                                 Present(EmbedAll(ingestRun.chunks))]
               /\ ingestRun' = [ingestRun EXCEPT !.pc = "rows"]
    /\ UNCHANGED <<diskVars, generation, ragPipeline, queryRun>>
    /\ SwapFrame

\* one round of the loop: self.db.add(self.embeddings[i], text, metadata)
AddRow ==
    /\ ingestRun.pc = "rows"
    /\ ingestRun.row < Len(ingestRun.chunks)
    /\ LET o == objects[ingestRun.target]
           i == ingestRun.row + 1
       IN IF i > Len(o.embeddings[1])                   \* obj.embeddings[i]
          THEN RunFails /\ UNCHANGED objects
          ELSE /\ objects' = [objects EXCEPT ![ingestRun.target].db =
                                 Present(VectorDB_modules_add(
                                            o.db[1], o.embeddings[1][i],
                                            One(ingestRun.chunks[i].text),
                                            One(ingestRun.chunks[i].metadata)).db)]
               /\ ingestRun' = [ingestRun EXCEPT !.row = i]
    /\ UNCHANGED <<diskVars, generation, ragPipeline, queryRun>>
    /\ SwapFrame

\* after the loop: __init__ calls add_to_cache and create_category_embeddings,
\* from_cache returns obj
FinishConstruction ==
    /\ ingestRun.pc = "rows"
    /\ ingestRun.row = Len(ingestRun.chunks)
    /\ \E fault \in {"none", "single"} :
          IF ingestRun.branch = "from_cache"
          THEN /\ ingestRun' = [ingestRun EXCEPT !.pc = "built"]
               /\ UNCHANGED embFile
          ELSE /\ embFile' = OkFile([chunks |-> objects[ingestRun.target].chunks[1],
                                     embeddings |->
                                         objects[ingestRun.target].embeddings[1]])
               /\ IF fault = "single" THEN RunFails
                  ELSE ingestRun' = [ingestRun EXCEPT !.pc = "built"]
    /\ UNCHANGED <<corpus, metaFile, objects, generation, ragPipeline, queryRun>>
    /\ SwapFrame

\* self.ragPipeline = <the object the branch returned>
Swap ==
    /\ ingestRun.pc = "built"
    /\ generation' = ingestRun.target
    /\ ragPipeline' = "RAGPipeline"
    /\ ingestRun' = NoRun
    /\ UNCHANGED <<diskVars, objects, queryRun>>
    /\ SwapFrame

\* the user saves a file into dataDir, between two calls of initialize()
SwapWriteFile ==
    /\ ingestRun.pc = "idle"
    /\ Len(objects) < MaxObjects
    /\ \E path \in IngestPaths, file \in SessionFiles :
          /\ path \in DOMAIN corpus => corpus[path] # file
          /\ corpus' = [f \in DOMAIN corpus \cup {path} |->
                            IF f = path THEN file ELSE corpus[f]]
    /\ UNCHANGED <<metaFile, embFile, ragPipeline, stepVars>>
    /\ UNCHANGED <<mergeVars, queryVars, detectVars, cacheVars, initResult, lastQuery,
                   indexVars, lexVars, rerankVars>>

Read(field, value) == [field |-> field, value |-> value]

QueryEnds(outcome) == queryRun' = NoQueryRun(outcome)

\* query(): reads self.ragPipeline; ask(): reads self.chunks, self.embeddings
QueryStart ==
    /\ queryRun.pc = "idle"
    /\ generation # 0 => objects[generation].turns < MaxSwapTurns
    /\ IF ragPipeline = "None"
       THEN queryRun' = NoQueryRun("not_initialized")
       ELSE LET o == objects[generation]
            IN IF o.chunks = Absent \/ o.embeddings = Absent
               THEN queryRun' = NoQueryRun("AttributeError")
               ELSE IF o.chunks[1] = <<>> \/ o.embeddings[1] = <<>>
               THEN queryRun' = NoQueryRun("no_documents")
               ELSE queryRun' = [pc |-> "lexical", ref |-> generation,
                                 reads |-> <<Read("chunks", o.chunks),
                                             Read("embeddings", o.embeddings)>>,
                                 outcome |-> "running"]
    /\ UNCHANGED <<diskVars, ragPipeline, objects, generation, ingestRun>>
    /\ SwapFrame

\* ask(): self.bm25Index.search(query, k=BM25_K), self.chunks[idx]["metadata"]
QueryLexical ==
    /\ queryRun.pc = "lexical"
    /\ LET o == objects[queryRun.ref]
       IN IF o.bm25Index = Absent \/ o.chunks = Absent
          THEN QueryEnds("AttributeError")
          ELSE queryRun' = [queryRun EXCEPT
                               !.pc = "vector",
                               !.reads = @ \o <<Read("bm25Index", o.bm25Index),
                                                Read("chunks", o.chunks)>>]
    /\ UNCHANGED <<diskVars, ragPipeline, objects, generation, ingestRun>>
    /\ SwapFrame

\* ask(): self.db.search(queryEmb, VECTOR_K), then the answer and the history
QueryVector ==
    /\ queryRun.pc = "vector"
    /\ LET o == objects[queryRun.ref]
       IN IF o.db = Absent
          THEN QueryEnds("AttributeError") /\ UNCHANGED objects
          ELSE \E fault \in {"none", "chat"} :
                  /\ QueryEnds(IF fault = "none" THEN "answer" ELSE "raise")
                  /\ objects' = IF fault = "none"
                                THEN [objects EXCEPT ![queryRun.ref].turns = @ + 1]
                                ELSE objects
    /\ UNCHANGED <<diskVars, ragPipeline, generation, ingestRun>>
    /\ SwapFrame

NextSwap ==
    \/ BeginRun
    \/ Fallback
    \/ AssignFields
    \/ BuildBm25
    \/ EmbedTexts
    \/ AddRow
    \/ FinishConstruction
    \/ Swap
    \/ SwapWriteFile
    \/ QueryStart
    \/ QueryLexical
    \/ QueryVector

(***************************************************************************)
(* Claim on ingestion next to queries.                                     *)
(***************************************************************************)
\* the attributes a query searches
IndexFields(o) ==
    [chunks |-> o.chunks, texts |-> o.texts, embeddings |-> o.embeddings, db |-> o.db,
     bm25Index |-> o.bm25Index]

\* the object is one complete index generation: every attribute is assigned and
\* the lexical index, the vector index and the embeddings cover the chunk list
Complete(o) ==
    /\ \A f \in {"chunks", "texts", "embeddings", "db", "bm25Index"} :
          IndexFields(o)[f] # Absent
    /\ o.texts[1] = TextsOf(o.chunks[1])
    /\ Len(o.embeddings[1]) = Len(o.chunks[1])
    /\ o.bm25Index[1].texts = o.texts[1]
    /\ o.db[1].texts = o.texts[1]
    /\ Len(o.db[1].vectors) = Len(o.chunks[1])
    /\ Len(o.db[1].metadata) = Len(o.chunks[1])

\* the objects a query can reach: the one self.ragPipeline refers to and the
\* one a query in flight holds
Reachable ==
    (IF generation = 0 THEN {} ELSE {generation})
       \cup (IF queryRun.pc = "idle" THEN {} ELSE {queryRun.ref})

\* C25: every object a query can reach is a complete generation, no step of an
\* ingestion run changes its index attributes, what a query in flight has read
\* are the attributes of the one object it holds, and self.ragPipeline moves
\* only in the step after the construction ended, to the object just built.
C25_AtomicSwap ==
    [][ /\ \A id \in Reachable :
              /\ Complete(objects[id])
              /\ IndexFields(objects'[id]) = IndexFields(objects[id])
        /\ queryRun'.pc # "idle" =>
              \A k \in DOMAIN queryRun'.reads :
                 queryRun'.reads[k].value
                    = IndexFields(objects'[queryRun'.ref])[queryRun'.reads[k].field]
        /\ generation' # generation =>
              /\ ingestRun.pc = "built"
              /\ generation' = ingestRun.target
              /\ Complete(objects'[generation']) ]_vars

\* C25 witness: a query in flight holds the first generation, which is intact,
\* while self.ragPipeline already refers to a second one with other chunks.
C25_Witness ==
    /\ queryRun.pc = "vector"
    /\ queryRun.ref = 1
    /\ generation = 2
    /\ Complete(objects[1])
    /\ objects[1].chunks # objects[2].chunks

SpecSwap == InitSwap /\ [][NextSwap]_vars

(***************************************************************************)
(* SpecSearch: a VectorDB filled the way a pipeline fills it, one chunk    *)
(* per add, and searched with any k.                                       *)
(***************************************************************************)
MaxSearchRows == 2  \* rows of the searched index
MaxSearchK == 2     \* largest k of a search

\* db.search(queryVector, k): the same code in both VectorDB classes
Search ==
    /\ \E k \in 0..MaxSearchK :
       \E r \in {VectorDB_search(db, labels) : labels \in SearchLabels(db, k)} :
          searchCall' = [k |-> k, kind |-> "search", raised |-> r.raised,
                         value |-> r.value]
    /\ UNCHANGED <<mergeVars, queryVars, diskVars, detectVars, cacheVars, systemVars,
                   indexVars, lexVars, rerankVars, objects, generation, ingestRun,
                   queryRun, chunkRun>>

InitSearch ==
    /\ MergeIdle
    /\ QueryIdle
    /\ DiskIdle
    /\ DetectIdle
    /\ CacheIdle
    /\ SystemIdle
    /\ IndexIdle
    /\ LexIdle
    /\ RerankIdle
    /\ StepIdle

\* self.db.add(self.embeddings[i], chunk["text"], chunk["metadata"])
AddChunk ==
    /\ Len(db.vectors) < MaxSearchRows
    /\ \E row \in Rows :
          db' = VectorDB_modules_add(db, Embedding(Chunk(row).text), One(Chunk(row).text),
                                     One(Chunk(row).metadata)).db
    /\ UNCHANGED <<mergeVars, queryVars, diskVars, detectVars, cacheVars, systemVars,
                   addResult, toolVars>>

NextSearch == AddChunk \/ Search

\* the step is a call of search
SearchRan == searchCall' # searchCall

\* the index holds n rows: one text and one metadata entry per vector
HasRows == Len(db.vectors) = Len(db.texts) /\ Len(db.texts) = Len(db.metadata)

\* C29: on an index of n rows search(q, k) returns min(k, n) results, each for
\* a distinct stored row with the text, metadata and distance of that row; for
\* k > n, n = 0 included, it does not raise and returns no entry that repeats
\* a stored row.
C29_SearchSize ==
    [][ (SearchRan /\ HasRows) =>
            LET n == Len(db.vectors)
                res == searchCall'.value
            IN /\ searchCall'.raised = Absent
               /\ Len(res) = Min(searchCall'.k, n)
               /\ \E row \in [DOMAIN res -> 1..n] :
                     /\ \A i, j \in DOMAIN res : row[i] = row[j] => i = j
                     /\ \A i \in DOMAIN res :
                           /\ res[i].text = db.texts[row[i]]
                           /\ res[i].metadata = db.metadata[row[i]]
                           /\ res[i].distance = Distance(row[i], i) ]_vars

SpecSearch == InitSearch /\ [][NextSearch]_vars

(***************************************************************************)
(* SpecChunk: one call of create_overlap_chunks (modules/loader.py),       *)
(* followed round by round through its while loop.                         *)
(***************************************************************************)
MaxTextLen == 5     \* characters of the text
MaxChunkSize == 2   \* chunkSize is 1..MaxChunkSize
MaxOverlap == 2     \* overlap is 0..MaxOverlap

\* a call that returns appends at most one chunk per word, and a text has
\* fewer words than characters: of a longer list only the first MaxChunkList
\* chunks are recorded, the loop itself goes on
MaxChunkList == MaxTextLen

\* below this value of start every slice words[start:end] is empty, so lower
\* values are recorded as this one
StartFloor == 0 - (MaxTextLen + MaxChunkSize)

ChunkTexts == SeqsUpTo({"a", "b", " "}, MaxTextLen)

\* text.split(): the maximal runs of characters that are not blanks
RECURSIVE SplitFrom(_, _)
SplitFrom(text, run) ==
    IF text = <<>> THEN (IF run = <<>> THEN <<>> ELSE <<run>>)
    ELSE IF Head(text) = " "
         THEN (IF run = <<>> THEN <<>> ELSE <<run>>) \o SplitFrom(Tail(text), <<>>)
         ELSE SplitFrom(Tail(text), Append(run, Head(text)))

Split(text) == SplitFrom(text, <<>>)

\* " ".join(words)
RECURSIVE Join(_)
Join(words) ==
    IF words = <<>> THEN <<>>
    ELSE IF Len(words) = 1 THEN words[1]
    ELSE words[1] \o <<" ">> \o Join(Tail(words))

\* list[a:b] of Python: a negative bound counts from the end, both are clipped
SliceBound(list, a) ==
    IF a < 0 THEN (IF Len(list) + a < 0 THEN 0 ELSE Len(list) + a)
    ELSE IF a > Len(list) THEN Len(list) ELSE a

PySlice(list, a, b) == SubSeq(list, SliceBound(list, a) + 1, SliceBound(list, b))

InitChunk ==
    /\ MergeIdle
    /\ QueryIdle
    /\ DiskIdle
    /\ DetectIdle
    /\ CacheIdle
    /\ SystemIdle
    /\ IndexIdle
    /\ LexIdle
    /\ RerankIdle
    /\ SwapIdle
    /\ SearchIdle
    /\ \E text \in ChunkTexts, chunkSize \in 1..MaxChunkSize, overlap \in 0..MaxOverlap :
          chunkRun = [pc |-> "entry", text |-> text, chunkSize |-> chunkSize,
                      overlap |-> overlap, words |-> <<>>, start |-> 0, chunks |-> <<>>]

ChunkFrame ==
    UNCHANGED <<mergeVars, queryVars, diskVars, detectVars, cacheVars, systemVars,
                indexVars, lexVars, rerankVars, objects, generation, ingestRun,
                queryRun, searchCall>>

\* words = text.split(); if len(words) <= chunkSize: return [text]
ChunkEnter ==
    /\ chunkRun.pc = "entry"
    /\ LET words == Split(chunkRun.text)
       IN chunkRun' = IF Len(words) <= chunkRun.chunkSize
                      THEN [chunkRun EXCEPT !.pc = "returned", !.words = words,
                                            !.chunks = <<chunkRun.text>>]
                      ELSE [chunkRun EXCEPT !.pc = "loop", !.words = words]
    /\ ChunkFrame

\* one round of `while start < len(words)`
ChunkLoop ==
    /\ chunkRun.pc = "loop"
    /\ chunkRun.start < Len(chunkRun.words)
    /\ LET end == chunkRun.start + chunkRun.chunkSize
           chunkWords == PySlice(chunkRun.words, chunkRun.start, end)
           start == chunkRun.start + (chunkRun.chunkSize - chunkRun.overlap)
       IN chunkRun' = [chunkRun EXCEPT
                          !.chunks = IF Len(@) < MaxChunkList
                                     THEN Append(@, Join(chunkWords)) ELSE @,
                          !.start = IF start < StartFloor THEN StartFloor ELSE start,
                          !.pc = IF start >= Len(chunkRun.words)    \* break
                                 THEN "returned" ELSE "loop"]
    /\ ChunkFrame

NextChunk == ChunkEnter \/ ChunkLoop

(***************************************************************************)
(* Claim on create_overlap_chunks.                                         *)
(***************************************************************************)
ChunkReturned == chunkRun.pc = "returned"

\* every word of the text is a word of some returned chunk
EveryWordChunked ==
    \A w \in DOMAIN chunkRun.words :
        \E c \in DOMAIN chunkRun.chunks :
            \E v \in DOMAIN Split(chunkRun.chunks[c]) :
                Split(chunkRun.chunks[c])[v] = chunkRun.words[w]

\* C30: for every text, chunkSize and overlap the call returns, and every word
\* of the text is in a returned chunk.
C30_TerminatesAndCovers ==
    /\ <>ChunkReturned
    /\ [](ChunkReturned => EveryWordChunked)

\* the loop is executed by one thread that is never suspended for ever; a
\* round that leaves start and the recorded list as they are is a step that
\* does not change the state, so a call that repeats such rounds for ever
\* shows as a behaviour that stays in the loop
SpecChunk == InitChunk /\ [][NextChunk]_vars /\ WF_vars(NextChunk)

====
